---------------------------- MODULE Spec2Model ----------------------------
(***************************************************************************)
(* Model of the scaledown package: the guide catalog and resolver          *)
(* (guides/prompting_guides.py), the guide-based rewrite engine            *)
(* (guides/optimizer.py) and the facades that add token accounting         *)
(* (models/base_model.py, api.py).                                         *)
(*                                                                         *)
(* Text is a sequence of one-character strings, so that lowercasing,       *)
(* prefix tests, regular-expression search/substitution and whitespace     *)
(* splitting are computed character by character as Python computes them.  *)
(* Python's None is the string "None"; as a value of current_model, which  *)
(* otherwise holds a text, it is NoModel.                                  *)
(***************************************************************************)
EXTENDS Integers, Sequences, FiniteSets, TLC

VARIABLES
    model_name,   \* identifier handed to GuideBasedOptimizer / BaseModel / select_model
    prompt,       \* the prompt text the caller supplies
    counter,      \* which count_tokens implementation the BaseModel subclass has
    current_model,\* ScaleDown.current_model: an identifier, or NoModel for Python's None
    op,           \* the operation that produced `result` ("none" before any call)
    guide,        \* self.guide of the optimizer: a guide reference, None, or "unbound"
    result,       \* the dictionary returned by the last operation
    prev,         \* the dictionary returned by the operation before it (history)
    catalog,      \* the module-level objects of prompting_guides.py, shared by all callers
    session,      \* current_template, current_style and template_values of the ScaleDown
    effects,      \* what the last ScaleDown operation did, in order (history)
    threads       \* the frames of the concurrent invocations (<<>> when there are none)

vars == <<model_name, prompt, counter, current_model, op, guide, result, prev,
          catalog, session, effects, threads>>

None == "None"

-----------------------------------------------------------------------------
(* Bounds of the explored inputs.                                          *)

\* prompts are concatenations of at most MaxFrags fragments of PromptFrags
MaxFrags == 3
\* identifiers are concatenations of at most MaxIdFrags fragments of IdFrags
MaxIdFrags == 3

-----------------------------------------------------------------------------
(* Characters and strings.                                                 *)

\* a sample of the characters str.isspace() / the regex class \s accept
Whitespace == {" ", "\t"}

IsSpace(c) == c \in Whitespace

UpperCase == <<"A", "B", "C", "D", "E", "F", "G", "H", "I", "J", "K", "L", "M",
               "N", "O", "P", "Q", "R", "S", "T", "U", "V", "W", "X", "Y", "Z">>
LowerCase == <<"a", "b", "c", "d", "e", "f", "g", "h", "i", "j", "k", "l", "m",
               "n", "o", "p", "q", "r", "s", "t", "u", "v", "w", "x", "y", "z">>

\* str.lower() on one character
LowerChar(c) ==
    IF \E k \in 1..Len(UpperCase) : UpperCase[k] = c
    THEN LowerCase[CHOOSE k \in 1..Len(UpperCase) : UpperCase[k] = c]
    ELSE c

\* str.lower()
Lower(s) == [k \in 1..Len(s) |-> LowerChar(s[k])]

\* str.upper() on one character (used only to enumerate case variants of inputs)
UpperChar(c) ==
    IF \E k \in 1..Len(LowerCase) : LowerCase[k] = c
    THEN UpperCase[CHOOSE k \in 1..Len(LowerCase) : LowerCase[k] = c]
    ELSE c

Upper(s) == [k \in 1..Len(s) |-> UpperChar(s[k])]

Capitalize(s) == [k \in 1..Len(s) |-> IF k = 1 THEN UpperChar(s[k]) ELSE s[k]]

\* the literal lit occurs in s at position i (1-based)
LitAt(s, i, lit) ==
    /\ i + Len(lit) - 1 <= Len(s)
    /\ \A k \in 1..Len(lit) : s[i + k - 1] = lit[k]

\* str.startswith(prefix)
StartsWith(s, prefix) == LitAt(s, 1, prefix)

-----------------------------------------------------------------------------
(* The part of Python's re the guides use.  A pattern is a sequence whose  *)
(* elements are literal characters, except the element "\\s+", which is    *)
(* the greedy one-or-more-whitespace item \s+.  A replacement is literal   *)
(* text (no guide's replacement refers to a group).                        *)

SpacePlus == "\\s+"

\* the number of whitespace characters of s from position i on
RECURSIVE SpaceRun(_, _)
SpaceRun(s, i) ==
    IF i <= Len(s) /\ IsSpace(s[i]) THEN 1 + SpaceRun(s, i + 1) ELSE 0

\* the greatest element of a non-empty set of numbers
SetMax(S) == CHOOSE x \in S : \A y \in S : y <= x

\* the position just past the match of pat[k..] that starts at s[i], or 0 when
\* there is none; \s+ takes the longest run first and gives back on failure
RECURSIVE MatchEnd(_, _, _, _)
MatchEnd(s, i, pat, k) ==
    IF k > Len(pat) THEN i
    ELSE IF pat[k] = SpacePlus
    THEN LET n == SpaceRun(s, i)
             ok == {j \in 1..n : MatchEnd(s, i + j, pat, k + 1) # 0}
         IN  IF ok = {} THEN 0 ELSE MatchEnd(s, i + SetMax(ok), pat, k + 1)
    ELSE IF i <= Len(s) /\ s[i] = pat[k]
    THEN MatchEnd(s, i + 1, pat, k + 1)
    ELSE 0

\* re.search(pat, s) is not None
ReSearch(pat, s) == \E i \in 1..(Len(s) + 1) : MatchEnd(s, i, pat, 1) # 0

\* the least element of a non-empty set of numbers
SetMin(S) == CHOOSE x \in S : \A y \in S : x <= y

\* re.sub from position i on: the leftmost match at or after i is replaced by
\* repl and the scan goes on after it, so matches do not overlap (no pattern
\* of the guides matches the empty string)
RECURSIVE ReSubFrom(_, _, _, _)
ReSubFrom(pat, repl, s, i) ==
    LET starts == {j \in i..Len(s) : MatchEnd(s, j, pat, 1) > j}
    IN  IF starts = {} THEN SubSeq(s, i, Len(s))
        ELSE LET j == SetMin(starts)
             IN  SubSeq(s, i, j - 1) \o repl
                    \o ReSubFrom(pat, repl, s, MatchEnd(s, j, pat, 1))

\* re.sub(pat, repl, s)
ReSub(pat, repl, s) == ReSubFrom(pat, repl, s, 1)

\* str.replace(old, new) from position i on (old is not empty)
RECURSIVE StrReplaceFrom(_, _, _, _)
StrReplaceFrom(s, old, new, i) ==
    LET starts == {j \in i..Len(s) : LitAt(s, j, old)}
    IN  IF starts = {} THEN SubSeq(s, i, Len(s))
        ELSE LET j == SetMin(starts)
             IN  SubSeq(s, i, j - 1) \o new
                    \o StrReplaceFrom(s, old, new, j + Len(old))

\* s.replace(old, new)
StrReplace(s, old, new) == StrReplaceFrom(s, old, new, 1)

\* len(s.split()): the number of maximal runs of non-whitespace characters
WordCount(s) ==
    Cardinality({i \in 1..Len(s) :
                    ~IsSpace(s[i]) /\ (i = 1 \/ IsSpace(s[i - 1]))})

-----------------------------------------------------------------------------
(* guides/prompting_guides.py: the catalog.  A guide object is named by    *)
(* the module-level variable that holds it, so that two dictionary entries *)
(* bound to the same object are the same reference; GuideObject gives the  *)
(* dictionary behind a reference.  A tip is represented by its title.      *)

Rule(p, r) == [pattern |-> p, replacement |-> r]

LLAMA_GUIDE ==
    [name   |-> "Llama",
     source |-> "Meta AI",
     url    |-> "https://www.llama.com/docs/how-to-guides/prompting/",
     tips   |-> <<"Be Clear and Concise", "Use Explicit Instructions",
                  "Use Stylistic Instructions", "Apply Formatting Instructions",
                  "Apply Chain of Thought">>,
     transformations |-> <<
        Rule(<<"C", "o", "u", "l", "d", " ", "y", "o", "u", " ", "p", "l", "e", "a", "s", "e", "\\s+">>, <<>>),
        Rule(<<"I", " ", "w", "o", "u", "l", "d", " ", "l", "i", "k", "e", " ", "y", "o", "u", " ", "t", "o", "\\s+">>, <<>>),
        Rule(<<"I", "f", " ", "y", "o", "u", " ", "d", "o", "n", "'", "t", " ", "m", "i", "n", "d", ",", "\\s+">>, <<>>),
        Rule(<<"I", "t", " ", "w", "o", "u", "l", "d", " ", "b", "e", " ", "g", "r", "e", "a", "t", " ", "i", "f", " ", "y", "o", "u", " ", "c", "o", "u", "l", "d", "\\s+">>, <<>>),
        Rule(<<"k", "i", "n", "d", "l", "y", "\\s+">>, <<>>),
        Rule(<<"P", "l", "e", "a", "s", "e", "\\s+">>, <<>>),
        Rule(<<"\\s+", "i", "f", " ", "p", "o", "s", "s", "i", "b", "l", "e">>, <<>>),
        Rule(<<"C", "a", "n", " ", "y", "o", "u", "\\s+">>, <<>>),
        Rule(<<"W", "o", "u", "l", "d", " ", "y", "o", "u", " ", "b", "e", " ", "a", "b", "l", "e", " ", "t", "o", "\\s+">>, <<>>) >>]

CLAUDE_GUIDE ==
    [name   |-> "Claude",
     source |-> "Anthropic",
     url    |-> "https://docs.anthropic.com/en/docs/build-with-claude/prompt-engineering/overview",
     tips   |-> <<"Be Clear and Direct", "Use Examples (Multishot Prompting)",
                  "Let Claude Think (Chain of Thought)", "Use XML Tags",
                  "Give Claude a Role (System Prompts)">>,
     transformations |-> <<
        Rule(<<"I", "'", "m", " ", "w", "o", "n", "d", "e", "r", "i", "n", "g", " ", "i", "f", " ", "y", "o", "u", " ", "m", "i", "g", "h", "t", " ", "b", "e", " ", "a", "b", "l", "e", " ", "t", "o", "\\s+">>, <<>>),
        Rule(<<"I", " ", "w", "a", "s", " ", "h", "o", "p", "i", "n", "g", " ", "y", "o", "u", " ", "c", "o", "u", "l", "d", "\\s+">>, <<>>),
        Rule(<<"C", "o", "u", "l", "d", " ", "y", "o", "u", " ", "p", "o", "s", "s", "i", "b", "l", "y", "\\s+">>, <<>>),
        Rule(<<"I", "f", " ", "i", "t", "'", "s", " ", "n", "o", "t", " ", "t", "o", "o", " ", "m", "u", "c", "h", " ", "t", "r", "o", "u", "b", "l", "e", ",", "\\s+">>, <<>>),
        Rule(<<"W", "h", "e", "n", " ", "y", "o", "u", " ", "g", "e", "t", " ", "a", " ", "c", "h", "a", "n", "c", "e", ",", "\\s+">>, <<>>) >>]

GPT_GUIDE ==
    [name   |-> "GPT",
     source |-> "OpenAI",
     url    |-> "https://platform.openai.com/docs/guides/prompt-engineering",
     tips   |-> <<"Write Clear and Specific Instructions", "Use Delimiters",
                  "Use Few-Shot Prompting", "Specify the Steps",
                  "Ask the Model to Evaluate Its Response">>,
     transformations |-> <<
        Rule(<<"C", "a", "n", " ", "y", "o", "u", "\\s+">>, <<>>),
        Rule(<<"P", "l", "e", "a", "s", "e", "\\s+">>, <<>>),
        Rule(<<"I", "'", "d", " ", "l", "i", "k", "e", " ", "y", "o", "u", " ", "t", "o", "\\s+">>, <<>>),
        Rule(<<"C", "o", "u", "l", "d", " ", "y", "o", "u", "\\s+">>, <<>>),
        Rule(<<"W", "o", "u", "l", "d", " ", "y", "o", "u", " ", "m", "i", "n", "d", "\\s+">>, <<>>) >>]

GuideRefs == {"LLAMA_GUIDE", "CLAUDE_GUIDE", "GPT_GUIDE"}

\* a guide dictionary of the documented shape that an application adds to
\* PROMPTING_GUIDES: it has rules but its "tips" list is empty
TIPLESS_GUIDE ==
    [name   |-> <<"C", "u", "s", "t", "o", "m", " ", "G", "u", "i", "d", "e">>,
     source |-> <<"A", "p", "p", "l", "i", "c", "a", "t", "i", "o", "n">>,
     url    |-> <<>>,
     tips   |-> <<>>,
     transformations |-> <<
        Rule(<<"P", "l", "e", "a", "s", "e", "\\s+">>, <<>>) >>]

\* the dictionary a guide reference points to
GuideObject(ref) ==
    CASE ref = "LLAMA_GUIDE"  -> LLAMA_GUIDE
      [] ref = "CLAUDE_GUIDE" -> CLAUDE_GUIDE
      [] ref = "GPT_GUIDE"    -> GPT_GUIDE
      [] ref = "TIPLESS_GUIDE" -> TIPLESS_GUIDE

\* a dict literal: its items in insertion order
Item(k, v) == [key |-> k, value |-> v]

\* key in d
DictHas(d, k) == \E n \in 1..Len(d) : d[n].key = k

\* the KeyError of a subscript whose key is absent, in place of a guide
KeyError == "KeyError"

\* d[key]
DictGet(d, k) ==
    IF DictHas(d, k)
    THEN d[CHOOSE n \in 1..Len(d) : d[n].key = k].value
    ELSE KeyError

PROMPTING_GUIDES == <<
    Item(<<"l", "l", "a", "m", "a">>,  "LLAMA_GUIDE"),
    Item(<<"c", "l", "a", "u", "d", "e">>, "CLAUDE_GUIDE"),
    Item(<<"g", "p", "t">>,    "GPT_GUIDE"),
    Item(<<"o", "p", "e", "n", "a", "i">>, "GPT_GUIDE") >>

\* the alias table with 'gpt-3.5-turbo' led to 'gpt-3.5', which is an alias,
\* not a key of PROMPTING_GUIDES
AliasTableDangling == <<
    Item(<<"l", "l", "a", "m", "a", "-", "2">>,           <<"l", "l", "a", "m", "a">>),
    Item(<<"l", "l", "a", "m", "a", "-", "3">>,           <<"l", "l", "a", "m", "a">>),
    Item(<<"l", "l", "a", "m", "a", "-", "2", "-", "7", "b">>,        <<"l", "l", "a", "m", "a">>),
    Item(<<"l", "l", "a", "m", "a", "-", "2", "-", "1", "3", "b">>,       <<"l", "l", "a", "m", "a">>),
    Item(<<"l", "l", "a", "m", "a", "-", "2", "-", "7", "0", "b">>,       <<"l", "l", "a", "m", "a">>),
    Item(<<"l", "l", "a", "m", "a", "-", "3", "-", "8", "b">>,        <<"l", "l", "a", "m", "a">>),
    Item(<<"l", "l", "a", "m", "a", "-", "3", "-", "7", "0", "b">>,       <<"l", "l", "a", "m", "a">>),
    Item(<<"c", "l", "a", "u", "d", "e", "-", "3", "-", "o", "p", "u", "s">>,     <<"c", "l", "a", "u", "d", "e">>),
    Item(<<"c", "l", "a", "u", "d", "e", "-", "3", "-", "s", "o", "n", "n", "e", "t">>,   <<"c", "l", "a", "u", "d", "e">>),
    Item(<<"c", "l", "a", "u", "d", "e", "-", "3", "-", "h", "a", "i", "k", "u">>,    <<"c", "l", "a", "u", "d", "e">>),
    Item(<<"c", "l", "a", "u", "d", "e", "-", "3", "-", "5", "-", "s", "o", "n", "n", "e", "t">>, <<"c", "l", "a", "u", "d", "e">>),
    Item(<<"c", "l", "a", "u", "d", "e", "-", "2">>,          <<"c", "l", "a", "u", "d", "e">>),
    Item(<<"g", "p", "t", "-", "3", ".", "5", "-", "t", "u", "r", "b", "o">>,     <<"g", "p", "t", "-", "3", ".", "5">>),
    Item(<<"g", "p", "t", "-", "4">>,             <<"g", "p", "t">>),
    Item(<<"g", "p", "t", "-", "4", "o">>,            <<"g", "p", "t">>),
    Item(<<"g", "p", "t", "-", "4", "-", "t", "u", "r", "b", "o">>,       <<"g", "p", "t">>),
    Item(<<"g", "p", "t", "-", "3", ".", "5">>,           <<"g", "p", "t">>) >>

\* the alias table with 'llama-3-70b' led to another family than 'llama-3'
AliasTableConflicting == <<
    Item(<<"l", "l", "a", "m", "a", "-", "2">>,           <<"l", "l", "a", "m", "a">>),
    Item(<<"l", "l", "a", "m", "a", "-", "3">>,           <<"l", "l", "a", "m", "a">>),
    Item(<<"l", "l", "a", "m", "a", "-", "2", "-", "7", "b">>,        <<"l", "l", "a", "m", "a">>),
    Item(<<"l", "l", "a", "m", "a", "-", "2", "-", "1", "3", "b">>,       <<"l", "l", "a", "m", "a">>),
    Item(<<"l", "l", "a", "m", "a", "-", "2", "-", "7", "0", "b">>,       <<"l", "l", "a", "m", "a">>),
    Item(<<"l", "l", "a", "m", "a", "-", "3", "-", "8", "b">>,        <<"l", "l", "a", "m", "a">>),
    Item(<<"l", "l", "a", "m", "a", "-", "3", "-", "7", "0", "b">>,       <<"g", "p", "t">>),
    Item(<<"c", "l", "a", "u", "d", "e", "-", "3", "-", "o", "p", "u", "s">>,     <<"c", "l", "a", "u", "d", "e">>),
    Item(<<"c", "l", "a", "u", "d", "e", "-", "3", "-", "s", "o", "n", "n", "e", "t">>,   <<"c", "l", "a", "u", "d", "e">>),
    Item(<<"c", "l", "a", "u", "d", "e", "-", "3", "-", "h", "a", "i", "k", "u">>,    <<"c", "l", "a", "u", "d", "e">>),
    Item(<<"c", "l", "a", "u", "d", "e", "-", "3", "-", "5", "-", "s", "o", "n", "n", "e", "t">>, <<"c", "l", "a", "u", "d", "e">>),
    Item(<<"c", "l", "a", "u", "d", "e", "-", "2">>,          <<"c", "l", "a", "u", "d", "e">>),
    Item(<<"g", "p", "t", "-", "3", ".", "5", "-", "t", "u", "r", "b", "o">>,     <<"g", "p", "t">>),
    Item(<<"g", "p", "t", "-", "4">>,             <<"g", "p", "t">>),
    Item(<<"g", "p", "t", "-", "4", "o">>,            <<"g", "p", "t">>),
    Item(<<"g", "p", "t", "-", "4", "-", "t", "u", "r", "b", "o">>,       <<"g", "p", "t">>),
    Item(<<"g", "p", "t", "-", "3", ".", "5">>,           <<"g", "p", "t">>) >>

MODEL_TO_GUIDE == <<
    Item(<<"l", "l", "a", "m", "a", "-", "2">>,           <<"l", "l", "a", "m", "a">>),
    Item(<<"l", "l", "a", "m", "a", "-", "3">>,           <<"l", "l", "a", "m", "a">>),
    Item(<<"l", "l", "a", "m", "a", "-", "2", "-", "7", "b">>,        <<"l", "l", "a", "m", "a">>),
    Item(<<"l", "l", "a", "m", "a", "-", "2", "-", "1", "3", "b">>,       <<"l", "l", "a", "m", "a">>),
    Item(<<"l", "l", "a", "m", "a", "-", "2", "-", "7", "0", "b">>,       <<"l", "l", "a", "m", "a">>),
    Item(<<"l", "l", "a", "m", "a", "-", "3", "-", "8", "b">>,        <<"l", "l", "a", "m", "a">>),
    Item(<<"l", "l", "a", "m", "a", "-", "3", "-", "7", "0", "b">>,       <<"l", "l", "a", "m", "a">>),
    Item(<<"c", "l", "a", "u", "d", "e", "-", "3", "-", "o", "p", "u", "s">>,     <<"c", "l", "a", "u", "d", "e">>),
    Item(<<"c", "l", "a", "u", "d", "e", "-", "3", "-", "s", "o", "n", "n", "e", "t">>,   <<"c", "l", "a", "u", "d", "e">>),
    Item(<<"c", "l", "a", "u", "d", "e", "-", "3", "-", "h", "a", "i", "k", "u">>,    <<"c", "l", "a", "u", "d", "e">>),
    Item(<<"c", "l", "a", "u", "d", "e", "-", "3", "-", "5", "-", "s", "o", "n", "n", "e", "t">>, <<"c", "l", "a", "u", "d", "e">>),
    Item(<<"c", "l", "a", "u", "d", "e", "-", "2">>,          <<"c", "l", "a", "u", "d", "e">>),
    Item(<<"g", "p", "t", "-", "3", ".", "5", "-", "t", "u", "r", "b", "o">>,     <<"g", "p", "t">>),
    Item(<<"g", "p", "t", "-", "4">>,             <<"g", "p", "t">>),
    Item(<<"g", "p", "t", "-", "4", "o">>,            <<"g", "p", "t">>),
    Item(<<"g", "p", "t", "-", "4", "-", "t", "u", "r", "b", "o">>,       <<"g", "p", "t">>),
    Item(<<"g", "p", "t", "-", "3", ".", "5">>,           <<"g", "p", "t">>) >>

\* the module-level state of prompting_guides.py once the module is loaded:
\* the two dictionaries and the guide dictionaries they lead to
InitialCatalog ==
    [PROMPTING_GUIDES |-> PROMPTING_GUIDES,
     MODEL_TO_GUIDE   |-> MODEL_TO_GUIDE,
     guides           |-> [ref \in GuideRefs |-> GuideObject(ref)]]

\* the module-level state after an application ran
\* PROMPTING_GUIDES["custom"] = TIPLESS_GUIDE
RegisteredCatalog ==
    [PROMPTING_GUIDES |-> Append(PROMPTING_GUIDES,
                                 Item(<<"c", "u", "s", "t", "o", "m">>, "TIPLESS_GUIDE")),
     MODEL_TO_GUIDE   |-> MODEL_TO_GUIDE,
     guides           |-> [ref \in GuideRefs \cup {"TIPLESS_GUIDE"} |->
                              GuideObject(ref)]]

\* get_guide_for_model(model_name) run against the dictionaries of catalog c
Resolve(c, name) ==
    LET model_key == Lower(name)
        hits == {n \in 1..Len(c.MODEL_TO_GUIDE) :
                    StartsWith(model_key, c.MODEL_TO_GUIDE[n].key)}
    IN  IF DictHas(c.PROMPTING_GUIDES, model_key)
        THEN DictGet(c.PROMPTING_GUIDES, model_key)
        ELSE IF DictHas(c.MODEL_TO_GUIDE, model_key)
        THEN DictGet(c.PROMPTING_GUIDES, DictGet(c.MODEL_TO_GUIDE, model_key))
        ELSE IF hits # {}
        THEN DictGet(c.PROMPTING_GUIDES, c.MODEL_TO_GUIDE[SetMin(hits)].value)
        ELSE None

\* the indices of the alias items whose key is a prefix of model_key
PrefixHits(model_key) ==
    {n \in 1..Len(MODEL_TO_GUIDE) : StartsWith(model_key, MODEL_TO_GUIDE[n].key)}

\* get_guide_for_model without the lowercasing of the identifier
GetGuideCaseSensitive(name) ==
    LET model_key == name
    IN  IF DictHas(PROMPTING_GUIDES, model_key)
        THEN DictGet(PROMPTING_GUIDES, model_key)
        ELSE IF DictHas(MODEL_TO_GUIDE, model_key)
        THEN DictGet(PROMPTING_GUIDES, DictGet(MODEL_TO_GUIDE, model_key))
        ELSE IF PrefixHits(model_key) # {}
        THEN DictGet(PROMPTING_GUIDES,
                     MODEL_TO_GUIDE[SetMin(PrefixHits(model_key))].value)
        ELSE None

\* get_guide_for_model without the prefix tier
GetGuideNoPrefix(name) ==
    LET model_key == Lower(name)
    IN  IF DictHas(PROMPTING_GUIDES, model_key)
        THEN DictGet(PROMPTING_GUIDES, model_key)
        ELSE IF DictHas(MODEL_TO_GUIDE, model_key)
        THEN DictGet(PROMPTING_GUIDES, DictGet(MODEL_TO_GUIDE, model_key))
        ELSE None

\* get_guide_for_model with the prefix tier also trying the catalog's keys
GetGuideKeyPrefix(name) ==
    LET model_key == Lower(name)
        keys == {n \in 1..Len(PROMPTING_GUIDES) :
                    StartsWith(model_key, PROMPTING_GUIDES[n].key)}
    IN  IF DictHas(PROMPTING_GUIDES, model_key)
        THEN DictGet(PROMPTING_GUIDES, model_key)
        ELSE IF DictHas(MODEL_TO_GUIDE, model_key)
        THEN DictGet(PROMPTING_GUIDES, DictGet(MODEL_TO_GUIDE, model_key))
        ELSE IF PrefixHits(model_key) # {}
        THEN DictGet(PROMPTING_GUIDES,
                     MODEL_TO_GUIDE[SetMin(PrefixHits(model_key))].value)
        ELSE IF keys # {}
        THEN PROMPTING_GUIDES[SetMin(keys)].value
        ELSE None

\* get_guide_for_model(model_name): a guide reference or None
get_guide_for_model(name) ==
    LET model_key == Lower(name)
    IN  IF DictHas(PROMPTING_GUIDES, model_key)
        THEN DictGet(PROMPTING_GUIDES, model_key)
        ELSE IF DictHas(MODEL_TO_GUIDE, model_key)
        THEN DictGet(PROMPTING_GUIDES, DictGet(MODEL_TO_GUIDE, model_key))
        ELSE IF PrefixHits(model_key) # {}
        THEN DictGet(PROMPTING_GUIDES,
                     MODEL_TO_GUIDE[SetMin(PrefixHits(model_key))].value)
        ELSE None

-----------------------------------------------------------------------------
(* guides/optimizer.py: GuideBasedOptimizer.                               *)

\* ApplyRules with the loop left at the first rule that changes the text
RECURSIVE ApplyRulesFirstOnly(_, _, _, _)
ApplyRulesFirstOnly(rules, k, optimized, applied_transformations) ==
    IF k > Len(rules)
    THEN [optimized |-> optimized, transformations |-> applied_transformations]
    ELSE LET after == ReSub(rules[k].pattern, rules[k].replacement, optimized)
         IN  IF optimized # after
             THEN [optimized       |-> after,
                   transformations |->
                       Append(applied_transformations,
                              [pattern     |-> rules[k].pattern,
                               replacement |-> rules[k].replacement,
                               before      |-> optimized,
                               after       |-> after])]
             ELSE ApplyRulesFirstOnly(rules, k + 1, optimized, applied_transformations)

\* ApplyRules with every rule recorded, whether or not it matched or changed the text
RECURSIVE ApplyRulesRecordAll(_, _, _, _)
ApplyRulesRecordAll(rules, k, optimized, applied_transformations) ==
    IF k > Len(rules)
    THEN [optimized |-> optimized, transformations |-> applied_transformations]
    ELSE LET after == ReSub(rules[k].pattern, rules[k].replacement, optimized)
         IN  ApplyRulesRecordAll(rules, k + 1, after,
                 Append(applied_transformations,
                        [pattern     |-> rules[k].pattern,
                         replacement |-> rules[k].replacement,
                         before      |-> optimized,
                         after       |-> after]))

\* ApplyRules iterated to a fixed point: after a rule fires the loop starts over
RECURSIVE ApplyRulesFixpoint(_, _, _, _)
ApplyRulesFixpoint(rules, k, optimized, applied_transformations) ==
    IF k > Len(rules)
    THEN [optimized |-> optimized, transformations |-> applied_transformations]
    ELSE LET after == ReSub(rules[k].pattern, rules[k].replacement, optimized)
         IN  IF optimized # after
             THEN ApplyRulesFixpoint(rules, 1, after,
                      Append(applied_transformations,
                             [pattern     |-> rules[k].pattern,
                              replacement |-> rules[k].replacement,
                              before      |-> optimized,
                              after       |-> after]))
             ELSE ApplyRulesFixpoint(rules, k + 1, optimized, applied_transformations)

\* the loop taking its 'before' snapshot after the substitution, so that no
\* change is ever seen and nothing is recorded
RECURSIVE ApplyRulesLateSnapshot(_, _, _, _)
ApplyRulesLateSnapshot(rules, k, optimized, applied_transformations) ==
    IF k > Len(rules)
    THEN [optimized |-> optimized, transformations |-> applied_transformations]
    ELSE IF ReSearch(rules[k].pattern, optimized)
         THEN ApplyRulesLateSnapshot(rules, k + 1,
                  ReSub(rules[k].pattern, rules[k].replacement, optimized),
                  applied_transformations)
         ELSE ApplyRulesLateSnapshot(rules, k + 1, optimized,
                  applied_transformations)

\* the loop of optimize over the guide's rules, from rule k on
RECURSIVE ApplyRules(_, _, _, _)
ApplyRules(rules, k, optimized, applied_transformations) ==
    IF k > Len(rules)
    THEN [optimized |-> optimized, transformations |-> applied_transformations]
    ELSE LET pattern     == rules[k].pattern
             replacement == rules[k].replacement
         IN  IF ReSearch(pattern, optimized)
             THEN LET before == optimized
                      after  == ReSub(pattern, replacement, optimized)
                  IN  IF before # after
                      THEN ApplyRules(rules, k + 1, after,
                               Append(applied_transformations,
                                      [pattern     |-> pattern,
                                       replacement |-> replacement,
                                       before      |-> before,
                                       after       |-> after]))
                      ELSE ApplyRules(rules, k + 1, after, applied_transformations)
             ELSE ApplyRules(rules, k + 1, optimized, applied_transformations)

\* a loop that consumes the guide's own rule list as it iterates
CatalogAfterRulePopped(c, g, k) ==
    [c EXCEPT !.guides[g].transformations =
        IF @ = <<>> THEN @ ELSE Tail(@)]

\* the catalog after iteration k of the loop of optimize over guide g: the
\* loop reads rule["pattern"] and rule["replacement"] and appends to its own
\* applied_transformations; it assigns nothing into self.guide
CatalogAfterRule(c, g, k) == c

\* the catalog after the iterations k, k + 1, ... of that loop
RECURSIVE CatalogAfterRules(_, _, _)
CatalogAfterRules(c, g, k) ==
    IF k > Len(GuideObject(g).transformations)
    THEN c
    ELSE CatalogAfterRules(CatalogAfterRule(c, g, k), g, k + 1)

\* the catalog after optimize(prompt_text) of an optimizer bound to guide g
CatalogAfterOptimize(c, g) ==
    IF g = None THEN c ELSE CatalogAfterRules(c, g, 1)

\* has_guide()
has_guide(g) == g # None

\* get_guide_info reporting the number of rules as tip_count
GetGuideInfoRuleCount(g) ==
    IF g = None
    THEN None
    ELSE [name      |-> GuideObject(g).name,
          source    |-> GuideObject(g).source,
          url       |-> GuideObject(g).url,
          tip_count |-> Len(GuideObject(g).transformations)]

\* get_guide_info()
get_guide_info(g) ==
    IF g = None
    THEN None
    ELSE [name      |-> GuideObject(g).name,
          source    |-> GuideObject(g).source,
          url       |-> GuideObject(g).url,
          tip_count |-> Len(GuideObject(g).tips)]

\* the values random.choice(self.guide["tips"]) can return
TipChoices(g) == {GuideObject(g).tips[n] : n \in 1..Len(GuideObject(g).tips)}

\* an exception of class kind leaving the operation instead of a return value
Raised(kind) == [raised |-> kind]

\* a value returned by an operation that returns no dictionary
Returned(v) == [value |-> v]

\* get_random_tip(): what the call can give.  random.choice raises IndexError
\* on an empty sequence, and only a missing guide is tested for.
get_random_tip(g) ==
    IF ~has_guide(g)
    THEN {Returned(None)}
    ELSE IF GuideObject(g).tips = <<>>
    THEN {Raised("IndexError")}
    ELSE {Returned(tip) : tip \in TipChoices(g)}

\* the sequence s reversed
Reverse(s) == [k \in 1..Len(s) |-> s[Len(s) + 1 - k]]

\* optimize with the guide-absent branch cleaning the prompt as
\* BaseModel.optimize_prompt does
OptimizeGenericFallback(g, prompt_text, tip) ==
    IF g = None
    THEN [original        |-> prompt_text,
          optimized       |-> ReSub(<<"P", "l", "e", "a", "s", "e", "\\s+">>, <<>>, prompt_text),
          guide_name      |-> None,
          guide_source    |-> None,
          transformations |-> <<>>,
          tip             |-> None]
    ELSE LET r == ApplyRules(GuideObject(g).transformations, 1, prompt_text, <<>>)
         IN  [original        |-> prompt_text,
              optimized       |-> r.optimized,
              guide_name      |-> GuideObject(g).name,
              guide_source    |-> GuideObject(g).source,
              transformations |-> r.transformations,
              tip             |-> tip]

\* optimize with the rule list put in an order that depends on the random draw
OptimizeShuffled(g, prompt_text, tip) ==
    IF g = None
    THEN [original        |-> prompt_text,
          optimized       |-> prompt_text,
          guide_name      |-> None,
          guide_source    |-> None,
          transformations |-> <<>>,
          tip             |-> None]
    ELSE LET rules == IF tip = GuideObject(g).tips[1]
                      THEN Reverse(GuideObject(g).transformations)
                      ELSE GuideObject(g).transformations
             r == ApplyRules(rules, 1, prompt_text, <<>>)
         IN  [original        |-> prompt_text,
              optimized       |-> r.optimized,
              guide_name      |-> GuideObject(g).name,
              guide_source    |-> GuideObject(g).source,
              transformations |-> r.transformations,
              tip             |-> tip]

\* optimize(prompt_text) of an optimizer bound to guide g, the tip drawn being tip
optimize(g, prompt_text, tip) ==
    IF g = None
    THEN [original        |-> prompt_text,
          optimized       |-> prompt_text,
          guide_name      |-> None,
          guide_source    |-> None,
          transformations |-> <<>>,
          tip             |-> None]
    ELSE LET r == ApplyRules(GuideObject(g).transformations, 1, prompt_text, <<>>)
         IN  [original        |-> prompt_text,
              optimized       |-> r.optimized,
              guide_name      |-> GuideObject(g).name,
              guide_source    |-> GuideObject(g).source,
              transformations |-> r.transformations,
              tip             |-> tip]

\* the tips optimize can put in its result
OptimizeTips(g) == IF g = None THEN {None} ELSE TipChoices(g)

\* what optimizer.optimize(prompt_text) can give: the loop runs first, then
\* get_random_tip() is called, whose IndexError leaves optimize
OptimizeOutcomes(g, prompt_text) ==
    IF has_guide(g) /\ GuideObject(g).tips = <<>>
    THEN {Raised("IndexError")}
    ELSE {optimize(g, prompt_text, tip) : tip \in OptimizeTips(g)}

-----------------------------------------------------------------------------
(* models/base_model.py: BaseModel, and api.py: ScaleDown.                 *)

\* the count_tokens implementations of the BaseModel subclasses explored:
\* whitespace-delimited words, and characters
Counters == {"words", "chars"}

\* self.count_tokens(text) of a model whose counter is c
count_tokens(c, text) == IF c = "words" THEN WordCount(text) ELSE Len(text)

\* (saved_tokens / original_count * 100) if original_count > 0 else 0, kept as
\* the exact fraction num/den; den = 0 stands for the ZeroDivisionError
Percentage(saved_tokens, original_count) ==
    IF original_count > 0
    THEN [num |-> saved_tokens * 100, den |-> original_count]
    ELSE [num |-> 0, den |-> 1]

\* optimize_prompt leaving the prompt alone when no guide is bound
OptimizePromptIdentity(g, prompt_text, tip) ==
    IF has_guide(g)
    THEN optimize(g, prompt_text, tip).optimized
    ELSE prompt_text

\* BaseModel.optimize_prompt(prompt)
optimize_prompt(g, prompt_text, tip) ==
    IF has_guide(g)
    THEN optimize(g, prompt_text, tip).optimized
    ELSE ReSub(<<"I", " ", "w", "o", "u", "l", "d", " ", "l", "i", "k", "e", " ", "y", "o", "u", " ", "t", "o", "\\s+">>, <<>>,
            ReSub(<<"C", "o", "u", "l", "d", " ", "y", "o", "u", "\\s+">>, <<>>,
               ReSub(<<"P", "l", "e", "a", "s", "e", "\\s+">>, <<>>, prompt_text)))

\* BaseModel.get_optimization_details(prompt) of a model named name whose
\* optimizer is bound to guide g and whose counter is c
get_optimization_details(name, g, c, prompt_text, tip) ==
    IF has_guide(g)
    THEN LET r               == optimize(g, prompt_text, tip)
             original_count  == count_tokens(c, prompt_text)
             optimized_count == count_tokens(c, r.optimized)
             saved_tokens    == original_count - optimized_count
         IN  [original         |-> r.original,
              optimized        |-> r.optimized,
              guide_name       |-> r.guide_name,
              guide_source     |-> r.guide_source,
              transformations  |-> r.transformations,
              tip              |-> r.tip,
              original_tokens  |-> original_count,
              optimized_tokens |-> optimized_count,
              saved_tokens     |-> saved_tokens,
              saved_percentage |-> Percentage(saved_tokens, original_count),
              model            |-> name]
    ELSE LET optimized       == optimize_prompt(g, prompt_text, tip)
             original_count  == count_tokens(c, prompt_text)
             optimized_count == count_tokens(c, optimized)
             saved_tokens    == original_count - optimized_count
         IN  [original         |-> prompt_text,
              optimized        |-> optimized,
              guide_name       |-> None,
              guide_source     |-> None,
              transformations  |-> <<>>,
              tip              |-> None,
              original_tokens  |-> original_count,
              optimized_tokens |-> optimized_count,
              saved_tokens     |-> saved_tokens,
              saved_percentage |-> Percentage(saved_tokens, original_count),
              model            |-> name]

\* current_template, current_style and template_values after ScaleDown.__init__
NewSession ==
    [current_template |-> None, current_style |-> None, template_values |-> {}]

\* Python's None as the value of ScaleDown.current_model
NoModel == <<None>>

\* the truth value of self.current_model
ModelSelected(m) == m # NoModel /\ m # <<>>

\* the merge of mock_optimize without the recalculation of the token fields
MockWithGuideStale(base, guide_result) ==
    [original         |-> base.original,
     optimized        |-> guide_result.optimized,
     original_tokens  |-> base.original_tokens,
     optimized_tokens |-> base.optimized_tokens,
     saved_tokens     |-> base.saved_tokens,
     saved_percentage |-> base.saved_percentage,
     model            |-> "mock-model",
     guide_name       |-> guide_result.guide_name,
     guide_source     |-> guide_result.guide_source,
     transformations  |-> guide_result.transformations,
     tip              |-> guide_result.tip]

\* the result of mock_optimize once the guide result has been merged in and the
\* token fields recalculated
MockWithGuide(base, guide_result) ==
    LET original_count  == base.original_tokens
        optimized_count == WordCount(guide_result.optimized)
        saved_tokens    == original_count - optimized_count
    IN  [original         |-> base.original,
         optimized        |-> guide_result.optimized,
         original_tokens  |-> original_count,
         optimized_tokens |-> optimized_count,
         saved_tokens     |-> saved_tokens,
         saved_percentage |-> Percentage(saved_tokens, original_count),
         model            |-> "mock-model",
         guide_name       |-> guide_result.guide_name,
         guide_source     |-> guide_result.guide_source,
         transformations  |-> guide_result.transformations,
         tip              |-> guide_result.tip]

\* mock_optimize without its three str.replace calls
MockOptimizeNoRemoval(m, prompt_text, tip) ==
    LET original_count == WordCount(prompt_text)
        base == [original         |-> prompt_text,
                 optimized        |-> prompt_text,
                 original_tokens  |-> original_count,
                 optimized_tokens |-> original_count,
                 saved_tokens     |-> 0,
                 saved_percentage |-> Percentage(0, original_count),
                 model            |-> "mock-model"]
    IN  IF ModelSelected(m) /\ has_guide(get_guide_for_model(m))
        THEN MockWithGuide(base, optimize(get_guide_for_model(m), prompt_text, tip))
        ELSE base

\* ScaleDown.mock_optimize(prompt) of a session whose current_model is m.  Its
\* def line in api.py is indented by one space, which Python rejects; it is
\* modelled as the method of ScaleDown that its body and its callers show.
mock_optimize(m, prompt_text, tip) ==
    LET optimized == StrReplace(StrReplace(StrReplace(prompt_text,
                         <<"P", "l", "e", "a", "s", "e", " ">>, <<>>), <<"k", "i", "n", "d", "l", "y", " ">>, <<>>), <<"C", "o", "u", "l", "d", " ", "y", "o", "u", " ">>, <<>>)
        original_count  == WordCount(prompt_text)
        optimized_count == WordCount(optimized)
        saved_tokens    == original_count - optimized_count
        base == [original         |-> prompt_text,
                 optimized        |-> optimized,
                 original_tokens  |-> original_count,
                 optimized_tokens |-> optimized_count,
                 saved_tokens     |-> saved_tokens,
                 saved_percentage |-> Percentage(saved_tokens, original_count),
                 model            |-> "mock-model"]
    IN  IF ModelSelected(m) /\ has_guide(get_guide_for_model(m))
        THEN MockWithGuide(base, optimize(get_guide_for_model(m), prompt_text, tip))
        ELSE base

\* the guide of the optimizer mock_optimize builds for current_model m, None
\* when it builds none
MockGuide(m) == IF ModelSelected(m) THEN get_guide_for_model(m) ELSE None

\* the tips mock_optimize can draw for a session whose current_model is m
MockTips(m) ==
    IF ModelSelected(m) THEN OptimizeTips(get_guide_for_model(m)) ELSE {None}

-----------------------------------------------------------------------------
(* api.py and api_client.py: the operations of a ScaleDown session.  The   *)
(* templates and styles packages are not modelled: a template or style is  *)
(* the identifier it was selected by.                                      *)

\* the prompt argument left at its default, None
NoPrompt == <<None>>

\* ValueError("No model selected. Call select_model() first.")
NoModelError == "ValueError: No model selected. Call select_model() first."

\* ValueError("No template selected. Call select_template() first.")
NoTemplateError == "ValueError: No template selected. Call select_template() first."

\* one entry of the history of what an operation did
Effect(event, detail) == [event |-> event, detail |-> detail]

NoDetail == [none |-> TRUE]

\* what requests.post and the service can answer: raised is the exception
\* requests.post raises ("" when it returns a response), body the decoded
\* JSON of the response ("invalid" when response.json() cannot decode it)
ApiReplies ==
    { [raised |-> "", status_code |-> 200, body |-> "compressed"],
      [raised |-> "", status_code |-> 200, body |-> "invalid"],
      [raised |-> "", status_code |-> 500, body |-> "invalid"],
      [raised |-> "ConnectionError", status_code |-> 0, body |-> "invalid"] }

\* ScaleDownAPIClient.compress_prompt(prompt, model, rate), the service
\* answering reply
compress_prompt(reply) ==
    IF reply.raised # ""
    THEN Raised(reply.raised)
    ELSE IF reply.status_code # 200
    THEN Raised("Exception")
    ELSE IF reply.body = "invalid"
    THEN Raised("JSONDecodeError")
    ELSE [response_json |-> reply.body]

\* compress_via_api asking for the prompt before it looks at the model
CompressViaApiLateCheck(m, s, p, reply, tip) ==
    IF p = NoPrompt /\ s.current_template = None
    THEN [result  |-> Raised(NoTemplateError),
          effects |-> << Effect("get_prompt", NoDetail) >>]
    ELSE IF ~ModelSelected(m)
    THEN [result |-> Raised(NoModelError), effects |-> <<>>]
    ELSE LET r == compress_prompt(reply)
         IN  IF "raised" \notin DOMAIN r
             THEN [result  |-> r,
                   effects |-> << Effect("api_request", reply) >>]
             ELSE [result  |-> mock_optimize(m, p, tip),
                   effects |-> << Effect("api_request", reply),
                                  Effect("mock_optimize", NoDetail) >>]

\* compress_via_api sending the request once more after a failure
CompressViaApiRetry(m, s, p, reply, tip) ==
    IF ~ModelSelected(m)
    THEN [result |-> Raised(NoModelError), effects |-> <<>>]
    ELSE IF p = NoPrompt /\ s.current_template = None
    THEN [result  |-> Raised(NoTemplateError),
          effects |-> << Effect("get_prompt", NoDetail) >>]
    ELSE LET r == compress_prompt(reply)
         IN  IF "raised" \notin DOMAIN r
             THEN [result  |-> r,
                   effects |-> << Effect("api_request", reply) >>]
             ELSE [result  |-> mock_optimize(m, p, tip),
                   effects |-> << Effect("api_request", reply),
                                  Effect("api_request", reply),
                                  Effect("mock_optimize", NoDetail) >>]

\* ScaleDown.compress_via_api(prompt) of a session with current_model m and
\* fields s, the service answering reply: the value returned or the
\* exception raised, and what was done.  p is a text, or NoPrompt in a
\* session without template, where get_prompt() raises.
compress_via_api(m, s, p, reply, tip) ==
    IF ~ModelSelected(m)
    THEN [result |-> Raised(NoModelError), effects |-> <<>>]
    ELSE IF p = NoPrompt /\ s.current_template = None
    THEN [result  |-> Raised(NoTemplateError),
          effects |-> << Effect("get_prompt", NoDetail) >>]
    ELSE LET r == compress_prompt(reply)
         IN  IF "raised" \notin DOMAIN r
             THEN [result  |-> r,
                   effects |-> << Effect("api_request", reply) >>]
             ELSE [result  |-> mock_optimize(m, p, tip),
                   effects |-> << Effect("api_request", reply),
                                  Effect("mock_optimize", NoDetail) >>]

\* ScaleDown.optimize(prompt).  current_model is the identifier select_model
\* stored, a str, so self.current_model.model_name raises AttributeError
\* once mock_optimize has returned.
ScaleDown_optimize(m, s, p, tip) ==
    IF ~ModelSelected(m)
    THEN [result |-> Raised(NoModelError), effects |-> <<>>]
    ELSE IF p = NoPrompt /\ s.current_template = None
    THEN [result  |-> Raised(NoTemplateError),
          effects |-> << Effect("get_prompt", NoDetail) >>]
    ELSE [result  |-> Raised("AttributeError"),
          effects |-> << Effect("mock_optimize", NoDetail) >>]

\* ScaleDown.get_model_guide_info(): the AttributeError of
\* self.current_model.model_name is caught and None returned
get_model_guide_info(m) ==
    IF ~ModelSelected(m)
    THEN [result |-> Raised(NoModelError), effects |-> <<>>]
    ELSE [result |-> Returned(None), effects |-> <<>>]

-----------------------------------------------------------------------------
(* The inputs explored.                                                    *)

\* the sequences of at most n elements of frags
FragSeqs(frags, n) == UNION {[1..m -> frags] : m \in 0..n}

\* the concatenation of the elements of a sequence of texts
RECURSIVE Join(_)
Join(fs) == IF fs = <<>> THEN <<>> ELSE Head(fs) \o Join(Tail(fs))

PromptFrags == {
    <<"C", "o", "u", "l", "d", " ">>,
    <<"y", "o", "u", " ", "p", "l", "e", "a", "s", "e", " ">>,
    <<"k", "i", "n", "d", "l", "y", " ">>,
    <<"h", "e", "l", "p">>,
    <<"P", "l", "e", "a", "s", "e", " ">> }

\* the prompts of the spec's scenarios and of tests/test_guides.py, and prompts
\* in which removing one phrase completes another
ExamplePrompts == {
    <<"C", "o", "u", "l", "d", " ", "y", "o", "u", " ", "p", "l", "e", "a", "s", "e", " ", "k", "i", "n", "d", "l", "y", " ", "h", "e", "l", "p", " ", "m", "e">>,
    <<"C", "o", "u", "l", "d", " ", "k", "i", "n", "d", "l", "y", " ", "y", "o", "u", " ", "p", "l", "e", "a", "s", "e", " ", "h", "e", "l", "p">>,
    <<"H", "e", "l", "l", "o">>,
    <<"C", "o", "u", "l", "d", " ", "y", "o", "u", " ", "p", "l", "e", "a", "s", "e", " ", "h", "e", "l", "p", " ", "m", "e", " ", "w", "r", "i", "t", "e", " ", "a", " ", "s", "u", "m", "m", "a", "r", "y", " ", "o", "f", " ", "t", "h", "i", "s", " ", "a", "r", "t", "i", "c", "l", "e", " ", "a", "b", "o", "u", "t", " ", "c", "l", "i", "m", "a", "t", "e", " ", "c", "h", "a", "n", "g", "e", "?">>,
    <<"I", " ", "w", "o", "u", "l", "d", " ", "l", "i", "k", "e", " ", "y", "o", "u", " ", "t", "o", " ", "a", "n", "a", "l", "y", "z", "e", " ", "t", "h", "i", "s", " ", "d", "a", "t", "a", " ", "a", "n", "d", " ", "t", "e", "l", "l", " ", "m", "e", " ", "w", "h", "a", "t", " ", "p", "a", "t", "t", "e", "r", "n", "s", " ", "y", "o", "u", " ", "s", "e", "e", ".">>,
    <<"P", "l", "e", "a", "s", "e", " ", "k", "i", "n", "d", "l", "y", " ", "e", "x", "p", "l", "a", "i", "n", " ", "h", "o", "w", " ", "q", "u", "a", "n", "t", "u", "m", " ", "c", "o", "m", "p", "u", "t", "i", "n", "g", " ", "w", "o", "r", "k", "s", " ", "i", "f", " ", "y", "o", "u", " ", "d", "o", "n", "'", "t", " ", "m", "i", "n", "d", ".">>,
    <<"I", "f", " ", "i", "t", "'", "s", " ", "n", "o", "t", " ", "t", "o", "o", " ", "m", "u", "c", "h", " ", "t", "r", "o", "u", "b", "l", "e", ",", " ", "c", "o", "u", "l", "d", " ", "y", "o", "u", " ", "w", "r", "i", "t", "e", " ", "a", " ", "s", "h", "o", "r", "t", " ", "s", "t", "o", "r", "y", " ", "a", "b", "o", "u", "t", " ", "a", " ", "r", "o", "b", "o", "t", " ", "l", "e", "a", "r", "n", "i", "n", "g", " ", "t", "o", " ", "f", "e", "e", "l", " ", "e", "m", "o", "t", "i", "o", "n", "s", "?">>,
    <<"C", "a", "n", " ", "P", "l", "e", "a", "s", "e", " ", "y", "o", "u", " ", "h", "e", "l", "p">>,
    <<"C", "o", "u", "l", "d", " ", "W", "h", "e", "n", " ", "y", "o", "u", " ", "g", "e", "t", " ", "a", " ", "c", "h", "a", "n", "c", "e", ",", " ", "y", "o", "u", " ", "p", "o", "s", "s", "i", "b", "l", "y", " ", "h", "e", "l", "p">>,
    <<"k", "i", "n", "d", "k", "i", "n", "d", "l", "y", " ", "l", "y", " ", "x">>,
    <<"C", "a", "n", " ", "y", "o", "u", " ", " ", "h", "e", "l", "p", ",", " ", " ", "P", "l", "e", "a", "s", "e", " ", " ">>,
    <<" ", "\t">>,
    <<"P", "l", "e", "a", "s", "e", "\t", "s", "u", "m", "m", "a", "r", "i", "z", "e",
      " ", "t", "h", "i", "s", " ", "\t", "i", "f", " ", "p", "o", "s", "s", "i", "b", "l", "e">> }

\* prompt is one of the prompts explored
IsPrompt(p) ==
    \/ p \in ExamplePrompts
    \/ \E fs \in FragSeqs(PromptFrags, MaxFrags) : p = Join(fs)

\* the identifiers the optimizer, the model and the session are given
ModelIds == {
    <<"l", "l", "a", "m", "a", "-", "3", "-", "7", "0", "b">>,
    <<"c", "l", "a", "u", "d", "e", "-", "3", "-", "o", "p", "u", "s">>,
    <<"g", "p", "t", "-", "4">>,
    <<"c", "l", "a", "u", "d", "e", "-", "3">>,
    <<>> }

IdFrags == {
    <<"g", "p", "t">>, <<"l", "l", "a", "m", "a">>, <<"c", "l", "a", "u", "d", "e">>, <<"o", "p", "e", "n", "a", "i">>,
    <<"-", "2">>, <<"-", "3">>, <<"-", "4">>, <<"-", "3", ".", "5">>, <<"o">>,
    <<"-", "t", "u", "r", "b", "o">>, <<"-", "7", "0", "b">>, <<"-", "x">> }

ExampleIds == {
    <<"l", "l", "a", "m", "a", "-", "3", "-", "7", "0", "b">>,
    <<"g", "p", "t", "-", "4", "o", "-", "m", "i", "n", "i", "-", "u", "n", "k", "n", "o", "w", "n">>,
    <<"c", "l", "a", "u", "d", "e", "-", "3", "-", "o", "p", "u", "s">>,
    <<"c", "l", "a", "u", "d", "e", "-", "3", "-", "5", "-", "s", "o", "n", "n", "e", "t">>,
    <<"g", "p", "t", "-", "3", ".", "5", "-", "t", "u", "r", "b", "o">>,
    <<"l", "l", "a", "m", "a", "-", "2", "-", "1", "3", "b">>,
    <<"m", "i", "s", "t", "r", "a", "l", "-", "7", "b">>,
    <<"g", "p", "t", "-", "5">> }

\* an identifier as written, in lower case, in upper case and capitalized
CaseVariants(s) == {s, Lower(s), Upper(s), Capitalize(s)}

\* name is one of the identifiers explored by the resolver
IsResolveId(name) ==
    \/ \E s \in ExampleIds : name \in CaseVariants(s)
    \/ \E fs \in FragSeqs(IdFrags, MaxIdFrags) : name \in CaseVariants(Join(fs))

NoResult == [none |-> TRUE]

-----------------------------------------------------------------------------
(* The state machine.  A behaviour starts from the inputs of one caller:   *)
(* a model identifier and a prompt.                                        *)

Init ==
    /\ model_name \in ModelIds
    /\ IsPrompt(prompt)
    /\ counter = "none"
    /\ current_model = NoModel
    /\ op = "none"
    /\ guide = "unbound"
    /\ result = NoResult
    /\ prev = NoResult
    /\ catalog = InitialCatalog
    /\ session = NewSession
    /\ effects = <<>>
    /\ threads = <<>>

InitResolve ==
    /\ IsResolveId(model_name)
    /\ prompt = <<>>
    /\ counter = "none"
    /\ current_model = NoModel
    /\ op = "none"
    /\ guide = "unbound"
    /\ result = NoResult
    /\ prev = NoResult
    /\ catalog = InitialCatalog
    /\ session = NewSession
    /\ effects = <<>>
    /\ threads = <<>>

\* optimizers already constructed, of an application that uses the shipped
\* catalog or that registered TIPLESS_GUIDE under 'custom'
InitTips ==
    /\ \/ /\ model_name \in ModelIds
          /\ catalog = InitialCatalog
       \/ /\ model_name = <<"c", "u", "s", "t", "o", "m">>
          /\ catalog = RegisteredCatalog
    /\ guide = Resolve(catalog, model_name)
    /\ IsPrompt(prompt)
    /\ counter = "none"
    /\ current_model = NoModel
    /\ op = "none"
    /\ result = NoResult
    /\ prev = NoResult
    /\ session = NewSession
    /\ effects = <<>>
    /\ threads = <<>>

\* GuideBasedOptimizer.__init__(model_name), also run by BaseModel.__init__
Construct ==
    /\ guide = "unbound"
    /\ op = "none"
    /\ guide' = get_guide_for_model(model_name)
    /\ UNCHANGED <<model_name, prompt, counter, current_model, op, result, prev,
                   catalog, session, effects, threads>>

\* get_guide_for_model(y) called directly, y a spelling of the same identifier
GetGuide ==
    /\ op = "none"
    /\ \E y \in CaseVariants(model_name) :
          result' = [name |-> y, guide |-> get_guide_for_model(y)]
    /\ op' = "get_guide_for_model"
    /\ UNCHANGED <<model_name, prompt, counter, current_model, guide, prev,
                   catalog, session, effects, threads>>

\* optimizer.optimize(prompt), the first call
Optimize ==
    /\ guide # "unbound"
    /\ op = "none"
    /\ result' \in OptimizeOutcomes(guide, prompt)
    /\ op' = "optimize"
    /\ UNCHANGED <<model_name, prompt, counter, current_model, guide, prev,
                   session, effects, threads>>
    /\ catalog' = CatalogAfterOptimize(catalog, guide)

\* optimizer.optimize(prompt) once more, with the same prompt
OptimizeSame ==
    /\ op = "optimize"
    /\ "raised" \notin DOMAIN result
    /\ \E tip \in OptimizeTips(guide) :
          result' = optimize(guide, prompt, tip)
    /\ prev' = result
    /\ op' = "same"
    /\ UNCHANGED <<model_name, prompt, counter, current_model, guide,
                   session, effects, threads>>
    /\ catalog' = CatalogAfterOptimize(catalog, guide)

\* optimizer.optimize(result["optimized"]): the output fed back
OptimizeOutput ==
    /\ op = "optimize"
    /\ "raised" \notin DOMAIN result
    /\ \E tip \in OptimizeTips(guide) :
          result' = optimize(guide, result.optimized, tip)
    /\ prev' = result
    /\ op' = "fedback"
    /\ UNCHANGED <<model_name, prompt, counter, current_model, guide,
                   session, effects, threads>>
    /\ catalog' = CatalogAfterOptimize(catalog, guide)

\* model.get_optimization_details(prompt) of a BaseModel subclass instance
GetOptimizationDetails ==
    /\ guide # "unbound"
    /\ op = "none"
    /\ \E c \in Counters, tip \in OptimizeTips(guide) :
          /\ counter' = c
          /\ result' = get_optimization_details(model_name, guide, c, prompt, tip)
    /\ op' = "details"
    /\ UNCHANGED <<model_name, prompt, current_model, guide, prev,
                   session, effects, threads>>
    /\ catalog' = CatalogAfterOptimize(catalog, guide)

\* sd.select_model(model_id)
SelectModel ==
    /\ current_model = NoModel
    /\ op = "none"
    /\ current_model' = model_name
    /\ UNCHANGED <<model_name, prompt, counter, op, guide, result, prev,
                   catalog, session, effects, threads>>

\* sd.mock_optimize(prompt), in a behaviour that builds no BaseModel
MockOptimize ==
    /\ guide = "unbound"
    /\ op = "none"
    /\ \E tip \in MockTips(current_model) :
          result' = mock_optimize(current_model, prompt, tip)
    /\ op' = "mock"
    /\ UNCHANGED <<model_name, prompt, counter, current_model, guide, prev,
                   session, effects, threads>>
    /\ catalog' = CatalogAfterOptimize(catalog, MockGuide(current_model))

\* optimizer.has_guide()
HasGuide ==
    /\ guide # "unbound"
    /\ op = "none"
    /\ result' = Returned(has_guide(guide))
    /\ op' = "has_guide"
    /\ UNCHANGED <<model_name, prompt, counter, current_model, guide, prev,
                   catalog, session, effects, threads>>

\* optimizer.get_guide_info()
GetGuideInfo ==
    /\ guide # "unbound"
    /\ op = "none"
    /\ result' = Returned(get_guide_info(guide))
    /\ op' = "get_guide_info"
    /\ UNCHANGED <<model_name, prompt, counter, current_model, guide, prev,
                   catalog, session, effects, threads>>

\* optimizer.get_random_tip()
GetRandomTip ==
    /\ guide # "unbound"
    /\ op = "none"
    /\ result' \in get_random_tip(guide)
    /\ op' = "get_random_tip"
    /\ UNCHANGED <<model_name, prompt, counter, current_model, guide, prev,
                   catalog, session, effects, threads>>

\* the rewrite engine: one optimizer, queried, or called once or twice
Next ==
    \/ Construct \/ GetGuide \/ HasGuide \/ GetGuideInfo \/ GetRandomTip
    \/ Optimize \/ OptimizeSame \/ OptimizeOutput

Spec == Init /\ [][Next]_vars

\* the facades: a BaseModel instance and a ScaleDown session
NextFacade == Construct \/ GetOptimizationDetails \/ SelectModel \/ MockOptimize

SpecFacade == Init /\ [][NextFacade]_vars

\* the resolver: identifiers in every spelling
NextResolve == Construct \/ GetGuide

SpecResolve == InitResolve /\ [][NextResolve]_vars


\* the tip draw: constructed optimizers, queried or called once
NextTips == HasGuide \/ GetGuideInfo \/ GetRandomTip \/ Optimize

SpecTips == InitTips /\ [][NextTips]_vars

\* the template, style and placeholder a session selects
TemplateIds == {"template"}
StyleIds == {"style"}
PlaceholderValues == {Item("topic", "value")}

\* a session over which nothing has been called yet
InitSession ==
    /\ model_name \in ModelIds
    /\ prompt \in ExamplePrompts
    /\ counter = "none"
    /\ current_model = NoModel
    /\ op = "none"
    /\ guide = "unbound"
    /\ result = NoResult
    /\ prev = NoResult
    /\ catalog = InitialCatalog
    /\ session = NewSession
    /\ effects = <<>>
    /\ threads = <<>>

\* sd.select_template(template_id); found tells whether the template
\* manager knows the identifier
SelectTemplate ==
    /\ op = "none"
    /\ session.current_template = None
    /\ \E template_id \in TemplateIds, found \in BOOLEAN :
          IF found
          THEN /\ session' = [session EXCEPT !.current_template = template_id,
                                             !.template_values = {}]
               /\ UNCHANGED <<op, result>>
          ELSE /\ result' = Raised("ValueError: Template not found")
               /\ op' = "select_template"
               /\ UNCHANGED session
    /\ UNCHANGED <<model_name, prompt, counter, current_model, guide, prev,
                   catalog, effects, threads>>

\* sd.select_style(style_id)
SelectStyle ==
    /\ op = "none"
    /\ session.current_style = None
    /\ \E style_id \in StyleIds, found \in BOOLEAN :
          IF found
          THEN /\ session' = [session EXCEPT !.current_style = style_id]
               /\ UNCHANGED <<op, result>>
          ELSE /\ result' = Raised("ValueError: Style not found")
               /\ op' = "select_style"
               /\ UNCHANGED session
    /\ UNCHANGED <<model_name, prompt, counter, current_model, guide, prev,
                   catalog, effects, threads>>

\* sd.set_value(key, value)
SetValue ==
    /\ op = "none"
    /\ \E item \in PlaceholderValues :
          /\ item \notin session.template_values
          /\ session' = [session EXCEPT !.template_values =
                {i \in @ : i.key # item.key} \cup {item}]
    /\ UNCHANGED <<model_name, prompt, counter, current_model, op, guide,
                   result, prev, catalog, effects, threads>>

\* the prompt arguments explored: the caller's text, or none where
\* get_prompt() needs no template to be rendered
PromptArgs ==
    {prompt} \cup
    (IF ModelSelected(current_model) /\ session.current_template # None
     THEN {} ELSE {NoPrompt})

\* the label of an operation called with or without its prompt argument
Called(name, p) == IF p = NoPrompt THEN name \o "()" ELSE name

\* sd.compress_via_api(prompt) and sd.compress_via_api()
CompressViaApi ==
    /\ guide = "unbound"
    /\ op = "none"
    /\ \E p \in PromptArgs, reply \in ApiReplies, tip \in MockTips(current_model) :
          LET r == compress_via_api(current_model, session, p, reply, tip)
          IN  /\ result' = r.result
              /\ effects' = r.effects
              /\ op' = Called("compress_via_api", p)
    /\ catalog' = CatalogAfterOptimize(catalog,
                     IF \E n \in 1..Len(effects') : effects'[n].event = "mock_optimize"
                     THEN MockGuide(current_model) ELSE None)
    /\ UNCHANGED <<model_name, prompt, counter, current_model, guide, prev,
                   session, threads>>

\* sd.optimize(prompt) and sd.optimize()
ScaleDownOptimize ==
    /\ guide = "unbound"
    /\ op = "none"
    /\ \E p \in PromptArgs, tip \in MockTips(current_model) :
          LET r == ScaleDown_optimize(current_model, session, p, tip)
          IN  /\ result' = r.result
              /\ effects' = r.effects
              /\ op' = Called("ScaleDown.optimize", p)
    /\ catalog' = CatalogAfterOptimize(catalog,
                     IF \E n \in 1..Len(effects') : effects'[n].event = "mock_optimize"
                     THEN MockGuide(current_model) ELSE None)
    /\ UNCHANGED <<model_name, prompt, counter, current_model, guide, prev,
                   session, threads>>

\* sd.get_model_guide_info()
GetModelGuideInfo ==
    /\ guide = "unbound"
    /\ op = "none"
    /\ LET r == get_model_guide_info(current_model)
       IN  /\ result' = r.result
           /\ effects' = r.effects
    /\ op' = "get_model_guide_info"
    /\ UNCHANGED <<model_name, prompt, counter, current_model, guide, prev,
                   catalog, session, threads>>

\* a ScaleDown session: selections, then one operation
NextSession ==
    \/ SelectModel \/ SelectTemplate \/ SelectStyle \/ SetValue
    \/ CompressViaApi \/ ScaleDownOptimize \/ GetModelGuideInfo

SpecSession == InitSession /\ [][NextSession]_vars
-----------------------------------------------------------------------------
(* Concurrent callers.  Each invocation runs in a frame of its own; the    *)
(* frames share the catalog.  An optimize invocation takes one step to     *)
(* enter, one per iteration of its loop over the rules and one to draw the *)
(* tip and return, and the steps of different frames interleave freely.    *)
(* Two frames of one optimizer instance and two frames of two instances    *)
(* built from the same identifier hold the same self.guide and differ in   *)
(* nothing else, since optimize assigns no attribute of self.              *)

Threads == {1, 2}

\* the identifiers and prompts of the concurrent invocations
ConcurrentIds == { <<"g", "p", "t", "-", "4">>, <<"l", "l", "a", "m", "a", "-", "3", "-", "7", "0", "b">>, <<"c", "l", "a", "u", "d", "e", "-", "3">> }
ConcurrentPrompts == {
    <<"C", "o", "u", "l", "d", " ", "y", "o", "u", " ", "p", "l", "e", "a", "s", "e", " ", "k", "i", "n", "d", "l", "y", " ", "h", "e", "l", "p", " ", "m", "e">>,
    <<"C", "o", "u", "l", "d", " ", "k", "i", "n", "d", "l", "y", " ", "y", "o", "u", " ", "p", "l", "e", "a", "s", "e", " ", "h", "e", "l", "p">>,
    <<"C", "a", "n", " ", "P", "l", "e", "a", "s", "e", " ", "y", "o", "u", " ", "h", "e", "l", "p">> }

\* the frame of an invocation that has not started: get_guide_for_model(name),
\* or optimize(text) on an optimizer constructed from name
NewFrame(call, name, text) ==
    [call      |-> call,
     name      |-> name,
     guide     |-> IF call = "optimize" THEN get_guide_for_model(name) ELSE "unbound",
     text      |-> text,
     pc        |-> "call",
     k         |-> 0,
     optimized |-> <<>>,
     applied_transformations |-> <<>>,
     result    |-> NoResult]

\* two invocations, each a resolver call or an optimize call
InitConcurrent ==
    /\ model_name = <<>>
    /\ prompt = <<>>
    /\ counter = "none"
    /\ current_model = NoModel
    /\ op = "none"
    /\ guide = "unbound"
    /\ result = NoResult
    /\ prev = NoResult
    /\ catalog = InitialCatalog
    /\ session = NewSession
    /\ effects = <<>>
    /\ \E f1, f2 \in {NewFrame(c.call, c.name, c.text) :
                        c \in [call : {"get_guide_for_model"}, name : ConcurrentIds,
                               text : {<<>>}]
                           \cup [call : {"optimize"}, name : ConcurrentIds,
                                 text : ConcurrentPrompts]} :
          threads = <<f1, f2>>

\* the frame after get_guide_for_model(fr.name) ran against catalog c
ResolveStep(c, fr) ==
    [fr EXCEPT !.result = [name |-> fr.name, guide |-> Resolve(c, fr.name)],
               !.pc = "done"]

\* the frame after optimize was entered: the guide-absent branch returns at
\* once, otherwise the loop starts on the prompt with an empty trace
EnterStep(fr) ==
    IF ~has_guide(fr.guide)
    THEN [fr EXCEPT !.result = optimize(None, fr.text, None), !.pc = "done"]
    ELSE [fr EXCEPT !.optimized = fr.text,
                    !.applied_transformations = <<>>,
                    !.k = 1,
                    !.pc = "loop"]

\* the frame after one iteration of the loop, on rule fr.k of the guide as
\* catalog c holds it
RuleStep(c, fr) ==
    LET rule        == c.guides[fr.guide].transformations[fr.k]
        pattern     == rule.pattern
        replacement == rule.replacement
        before      == fr.optimized
        after       == ReSub(pattern, replacement, fr.optimized)
    IN  IF ReSearch(pattern, fr.optimized)
        THEN [fr EXCEPT
                !.optimized = after,
                !.applied_transformations =
                    IF before # after
                    THEN Append(@, [pattern     |-> pattern,
                                    replacement |-> replacement,
                                    before      |-> before,
                                    after       |-> after])
                    ELSE @,
                !.k = @ + 1]
        ELSE [fr EXCEPT !.k = @ + 1]

\* the frame after the loop ended, tip was drawn and the result built
ReturnStep(c, fr, tip) ==
    [fr EXCEPT
        !.result = [original        |-> fr.text,
                    optimized       |-> fr.optimized,
                    guide_name      |-> c.guides[fr.guide].name,
                    guide_source    |-> c.guides[fr.guide].source,
                    transformations |-> fr.applied_transformations,
                    tip             |-> tip],
        !.pc = "done"]

\* a caller's get_guide_for_model(name) runs
ThreadResolve ==
    /\ \E t \in DOMAIN threads :
          /\ threads[t].pc = "call"
          /\ threads[t].call = "get_guide_for_model"
          /\ threads' = [threads EXCEPT ![t] = ResolveStep(catalog, @)]
    /\ UNCHANGED <<model_name, prompt, counter, current_model, op, guide,
                   result, prev, catalog, session, effects>>

\* a caller enters optimizer.optimize(text)
ThreadEnter ==
    /\ \E t \in DOMAIN threads :
          /\ threads[t].pc = "call"
          /\ threads[t].call = "optimize"
          /\ threads' = [threads EXCEPT ![t] = EnterStep(@)]
    /\ UNCHANGED <<model_name, prompt, counter, current_model, op, guide,
                   result, prev, catalog, session, effects>>

\* a caller's loop runs one iteration
ThreadRule ==
    /\ \E t \in DOMAIN threads :
          /\ threads[t].pc = "loop"
          /\ threads[t].k <= Len(catalog.guides[threads[t].guide].transformations)
          /\ threads' = [threads EXCEPT ![t] = RuleStep(catalog, @)]
          /\ catalog' = CatalogAfterRule(catalog, threads[t].guide, threads[t].k)
    /\ UNCHANGED <<model_name, prompt, counter, current_model, op, guide,
                   result, prev, session, effects>>

\* a caller's loop has ended: the tip is drawn and optimize returns
ThreadReturn ==
    /\ \E t \in DOMAIN threads :
          /\ threads[t].pc = "loop"
          /\ threads[t].k > Len(catalog.guides[threads[t].guide].transformations)
          /\ \E tip \in TipChoices(threads[t].guide) :
                threads' = [threads EXCEPT ![t] = ReturnStep(catalog, @, tip)]
    /\ UNCHANGED <<model_name, prompt, counter, current_model, op, guide,
                   result, prev, catalog, session, effects>>

\* two callers whose invocations interleave step by step
NextConcurrent == ThreadResolve \/ ThreadEnter \/ ThreadRule \/ ThreadReturn

SpecConcurrent == InitConcurrent /\ [][NextConcurrent]_vars

-----------------------------------------------------------------------------
(* Properties of the resolver (checked under SpecResolve).                 *)

\* p is a prefix of s
IsPrefixOf(p, s) == Len(p) <= Len(s) /\ SubSeq(s, 1, Len(p)) = p

\* the catalog items whose key is k
DirectItems(k) == {n \in 1..Len(PROMPTING_GUIDES) : PROMPTING_GUIDES[n].key = k}

\* the alias items whose key is k
AliasItems(k) == {n \in 1..Len(MODEL_TO_GUIDE) : MODEL_TO_GUIDE[n].key = k}

\* the alias items whose key is a prefix of k
PrefixItems(k) ==
    {n \in 1..Len(MODEL_TO_GUIDE) : IsPrefixOf(MODEL_TO_GUIDE[n].key, k)}

\* the guide the n-th alias item leads to
AliasGuide(n) ==
    PROMPTING_GUIDES[CHOOSE m \in 1..Len(PROMPTING_GUIDES) :
                        PROMPTING_GUIDES[m].key = MODEL_TO_GUIDE[n].value].value

\* C1: once an optimizer is constructed for an identifier, its guide is, with
\* k the lowercased identifier: the catalog guide of k if k is a catalog key;
\* otherwise the guide of the alias k if k is an alias key; otherwise the guide
\* of the first alias, in table order, that is a prefix of k; otherwise None.
\* The result is one catalog guide or None, and None for the empty string.
C1_ResolutionTiers ==
    guide # "unbound" =>
        LET k == Lower(model_name)
        IN  /\ guide \in GuideRefs \cup {None}
            /\ DirectItems(k) # {} =>
                  \A n \in DirectItems(k) : guide = PROMPTING_GUIDES[n].value
            /\ (DirectItems(k) = {} /\ AliasItems(k) # {}) =>
                  \A n \in AliasItems(k) : guide = AliasGuide(n)
            /\ (DirectItems(k) = {} /\ AliasItems(k) = {} /\ PrefixItems(k) # {}) =>
                  \E n \in PrefixItems(k) :
                      /\ \A m \in PrefixItems(k) : n <= m
                      /\ guide = AliasGuide(n)
            /\ (DirectItems(k) = {} /\ AliasItems(k) = {} /\ PrefixItems(k) = {}) =>
                  guide = None
            /\ model_name = <<>> => guide = None

\* an identifier with capitals that only the prefix tier resolves, two aliases
\* being prefixes of it
C1_Witness ==
    /\ guide \in GuideRefs
    /\ model_name # Lower(model_name)
    /\ DirectItems(Lower(model_name)) = {}
    /\ AliasItems(Lower(model_name)) = {}
    /\ Cardinality(PrefixItems(Lower(model_name))) >= 2

\* C2: a direct call of get_guide_for_model with any spelling of the identifier
\* that is equal after lowercasing returns the very guide object the optimizer
\* was bound to (or None for both); "gpt" and "openai" give the same object.
C2_CaseInsensitiveSameObject ==
    /\ (op = "get_guide_for_model" /\ guide # "unbound"
            /\ Lower(result.name) = Lower(model_name))
          => result.guide = guide
    /\ (guide # "unbound" /\ Lower(model_name) \in {<<"g", "p", "t">>, <<"o", "p", "e", "n", "a", "i">>})
          => guide = "GPT_GUIDE"

\* two different spellings of an identifier of the prefix tier, one guide object
C2_Witness ==
    /\ op = "get_guide_for_model"
    /\ guide \in GuideRefs
    /\ result.name # model_name
    /\ result.guide = guide
    /\ DirectItems(Lower(model_name)) = {}
    /\ AliasItems(Lower(model_name)) = {}

\* C3: "llama-3-70b" is no catalog key but an alias key, and resolves to the
\* guide named "Llama"; "gpt-4o-mini-unknown" is neither a catalog key nor an
\* alias key, and resolves to the guide named "GPT", which is the guide of the
\* first alias that is a prefix of it.
C3_ShippedScenarios ==
    /\ (guide # "unbound" /\ model_name = <<"l", "l", "a", "m", "a", "-", "3", "-", "7", "0", "b">>) =>
          /\ DirectItems(model_name) = {}
          /\ AliasItems(model_name) # {}
          /\ guide \in GuideRefs
          /\ GuideObject(guide).name = "Llama"
    /\ (guide # "unbound" /\ model_name = <<"g", "p", "t", "-", "4", "o", "-", "m", "i", "n", "i", "-", "u", "n", "k", "n", "o", "w", "n">>) =>
          /\ DirectItems(model_name) = {}
          /\ AliasItems(model_name) = {}
          /\ guide \in GuideRefs
          /\ GuideObject(guide).name = "GPT"
          /\ guide = AliasGuide(SetMin(PrefixItems(model_name)))

C3_Witness ==
    /\ guide = "GPT_GUIDE"
    /\ model_name = <<"g", "p", "t", "-", "4", "o", "-", "m", "i", "n", "i", "-", "u", "n", "k", "n", "o", "w", "n">>

-----------------------------------------------------------------------------
(* Properties of the rewrite engine (checked under Spec) and of the        *)
(* facades (checked under SpecFacade).                                     *)

\* no catalog key, alias key or alias prefix matches the identifier
Unmatched(name) ==
    /\ DirectItems(Lower(name)) = {}
    /\ AliasItems(Lower(name)) = {}
    /\ PrefixItems(Lower(name)) = {}

\* C4: for an identifier that nothing matches, optimize returns the prompt as
\* both original and optimized, no transformations, and None as guide_name,
\* guide_source and tip; it returns a result, not an error.
C4_UnmatchedIsIdentity ==
    (op = "optimize" /\ Unmatched(model_name)) =>
        result = [original        |-> prompt,
                  optimized       |-> prompt,
                  guide_name      |-> None,
                  guide_source    |-> None,
                  transformations |-> <<>>,
                  tip             |-> None]

\* an unmatched identifier that starts with a catalog key, and a prompt that
\* every guide would rewrite
C4_Witness ==
    /\ op = "optimize"
    /\ model_name = <<"c", "l", "a", "u", "d", "e", "-", "3">>
    /\ Unmatched(model_name)
    /\ prompt = <<"P", "l", "e", "a", "s", "e", " ", "k", "i", "n", "d", "l", "y", " ", "e", "x", "p", "l", "a", "i", "n", " ", "h", "o", "w", " ", "q", "u", "a", "n", "t", "u", "m", " ", "c", "o", "m", "p", "u", "t", "i", "n", "g", " ", "w", "o", "r", "k", "s", " ", "i", "f", " ", "y", "o", "u", " ", "d", "o", "n", "'", "t", " ", "m", "i", "n", "d", ".">>
    /\ result.optimized = prompt

\* the token count a facade result is accounted with: the bound counter for
\* get_optimization_details, the word count for mock_optimize
CountOf(text) == IF op = "details" THEN count_tokens(counter, text) ELSE WordCount(text)

\* C5: every result of get_optimization_details (guide found or not) and of
\* mock_optimize has saved_tokens = original_tokens - optimized_tokens, the two
\* counts being those of its own original and optimized texts, and has a
\* saved_percentage that is computed (no division by zero) and is 0 when
\* original_tokens = 0.
C5_TokenAccounting ==
    op \in {"details", "mock"} =>
        /\ result.original_tokens = CountOf(result.original)
        /\ result.optimized_tokens = CountOf(result.optimized)
        /\ result.saved_tokens = result.original_tokens - result.optimized_tokens
        /\ result.saved_percentage.den # 0
        /\ result.original_tokens = 0 => result.saved_percentage.num = 0
        /\ result.original_tokens > 0 =>
              result.saved_percentage =
                  [num |-> result.saved_tokens * 100, den |-> result.original_tokens]

\* mock_optimize with a guide whose rewrite saves more words than the plain
\* phrase removal
C5_Witness ==
    /\ op = "mock"
    /\ "guide_name" \in DOMAIN result
    /\ result.guide_name = "Llama"
    /\ result.saved_tokens > 0
    /\ result.optimized_tokens
          # WordCount(StrReplace(StrReplace(StrReplace(prompt,
                <<"P", "l", "e", "a", "s", "e", " ">>, <<>>), <<"k", "i", "n", "d", "l", "y", " ">>, <<>>), <<"C", "o", "u", "l", "d", " ", "y", "o", "u", " ">>, <<>>))

\* the rules of the guide the optimizer is bound to
BoundRules == GuideObject(guide).transformations

\* <<t0, ..., tk>>: t0 = text, and tj the text after substituting rule j in t(j-1)
RECURSIVE TextsThrough(_, _, _)
TextsThrough(rules, text, k) ==
    IF k = 0 THEN <<text>>
    ELSE LET texts == TextsThrough(rules, text, k - 1)
         IN  Append(texts, ReSub(rules[k].pattern, rules[k].replacement, texts[k]))

\* the patterns of the trace, in trace order
TracePatterns(trace) == [e \in 1..Len(trace) |-> trace[e].pattern]

\* the position in rules of the rule with this pattern (patterns are distinct)
RuleIndex(rules, pattern) == CHOOSE k \in 1..Len(rules) : rules[k].pattern = pattern

\* C6: with a guide bound, optimized is the text obtained by substituting the
\* guide's rules one after the other in list order, each once and each in the
\* text the preceding rules left, and the trace names, in guide order, the
\* rules whose substitution changed the text.  The Llama guide turns
\* "Could you please kindly help me" into "help me" with two transformations.
C6_RulesComposeInOrder ==
    (op = "optimize" /\ guide \in GuideRefs) =>
        LET n     == Len(BoundRules)
            texts == TextsThrough(BoundRules, prompt, n)
            Fired(k) == texts[k + 1] # texts[k]
        IN  /\ result.original = prompt
            /\ result.optimized = texts[n + 1]
            /\ TracePatterns(result.transformations)
                  = [e \in 1..Len(SelectSeq([k \in 1..n |-> k], Fired)) |->
                        BoundRules[SelectSeq([k \in 1..n |-> k], Fired)[e]].pattern]
            /\ (guide = "LLAMA_GUIDE" /\ prompt = <<"C", "o", "u", "l", "d", " ", "y", "o", "u", " ", "p", "l", "e", "a", "s", "e", " ", "k", "i", "n", "d", "l", "y", " ", "h", "e", "l", "p", " ", "m", "e">>) =>
                  /\ result.optimized = <<"h", "e", "l", "p", " ", "m", "e">>
                  /\ TracePatterns(result.transformations)
                        = << <<"C", "o", "u", "l", "d", " ", "y", "o", "u", " ", "p", "l", "e", "a", "s", "e", "\\s+">>, <<"k", "i", "n", "d", "l", "y", "\\s+">> >>

\* the spec's scenario
C6_Witness ==
    /\ op = "optimize"
    /\ guide = "LLAMA_GUIDE"
    /\ prompt = <<"C", "o", "u", "l", "d", " ", "y", "o", "u", " ", "p", "l", "e", "a", "s", "e", " ", "k", "i", "n", "d", "l", "y", " ", "h", "e", "l", "p", " ", "m", "e">>
    /\ Len(result.transformations) = 2

\* the text rule k is applied to, read off the result: the after-snapshot of
\* the last recorded rule before k, or the original when there is none
TextBeforeRule(res, rules, k) ==
    LET earlier == {e \in 1..Len(res.transformations) :
                       RuleIndex(rules, res.transformations[e].pattern) < k}
    IN  IF earlier = {} THEN res.original
        ELSE res.transformations[SetMax(earlier)].after

\* C7: every recorded transformation has before # after, its after being the
\* substitution of its rule in its before; and a rule is recorded exactly when
\* substituting it in the text it is applied to changes that text.
C7_TraceOnlyChanges ==
    (op = "optimize" /\ guide \in GuideRefs) =>
        /\ \A e \in 1..Len(result.transformations) :
              LET t == result.transformations[e]
              IN  /\ t.before # t.after
                  /\ t.after = ReSub(t.pattern, t.replacement, t.before)
                  /\ \E k \in 1..Len(BoundRules) :
                        /\ BoundRules[k].pattern = t.pattern
                        /\ BoundRules[k].replacement = t.replacement
                        /\ t.before = TextBeforeRule(result, BoundRules, k)
        /\ \A k \in 1..Len(BoundRules) :
              LET text == TextBeforeRule(result, BoundRules, k)
              IN  (\E e \in 1..Len(result.transformations) :
                      result.transformations[e].pattern = BoundRules[k].pattern)
                  <=> ReSub(BoundRules[k].pattern, BoundRules[k].replacement, text) # text

\* a result in which one rule was recorded and a later rule, which does not
\* match the text it is applied to, was not
C7_Witness ==
    /\ op = "optimize"
    /\ guide \in GuideRefs
    /\ Len(result.transformations) = 1
    /\ RuleIndex(BoundRules, result.transformations[1].pattern) < Len(BoundRules)
    /\ result.optimized # <<>>

\* C8: the trace follows the rule list strictly forward: no rule is recorded
\* twice and none is recorded after a later rule, so a rule is never applied
\* again to the output of a rule that follows it.  The Llama guide turns
\* "Could kindly you please help" into "Could you please help" with the single
\* transformation kindly\s+.
C8_SingleForwardPass ==
    (op = "optimize" /\ guide \in GuideRefs) =>
        /\ \A e, f \in 1..Len(result.transformations) :
              e < f => RuleIndex(BoundRules, result.transformations[e].pattern)
                          < RuleIndex(BoundRules, result.transformations[f].pattern)
        /\ Len(result.transformations) <= Len(BoundRules)
        /\ (guide = "LLAMA_GUIDE" /\ prompt = <<"C", "o", "u", "l", "d", " ", "k", "i", "n", "d", "l", "y", " ", "y", "o", "u", " ", "p", "l", "e", "a", "s", "e", " ", "h", "e", "l", "p">>) =>
              /\ result.optimized = <<"C", "o", "u", "l", "d", " ", "y", "o", "u", " ", "p", "l", "e", "a", "s", "e", " ", "h", "e", "l", "p">>
              /\ TracePatterns(result.transformations) = << <<"k", "i", "n", "d", "l", "y", "\\s+">> >>

\* a rule fired, and its output matches the pattern of a rule before it
C8_Witness ==
    /\ op = "optimize"
    /\ guide \in GuideRefs
    /\ \E e \in 1..Len(result.transformations) :
          \E k \in 1..Len(BoundRules) :
              /\ k < RuleIndex(BoundRules, result.transformations[e].pattern)
              /\ ReSearch(BoundRules[k].pattern, result.optimized)

\* some rule of the guide matches the text
SomeRuleMatches(rules, text) == \E k \in 1..Len(rules) : ReSearch(rules[k].pattern, text)

\* C9 as stated: the optimized text fed back comes out unchanged, with an empty trace
C9_Idempotent ==
    (op = "fedback" /\ guide \in GuideRefs) =>
        /\ result.optimized = prev.optimized
        /\ result.transformations = <<>>

\* C9, amended: the optimized text fed back comes out unchanged with an empty
\* trace exactly when no rule of the guide matches it, which is so whenever the
\* first call recorded nothing; when a rule still matches it, the second call
\* records a transformation and returns a strictly shorter text.
C9_IdempotentUnlessStillMatching ==
    (op = "fedback" /\ guide \in GuideRefs) =>
        /\ result.original = prev.optimized
        /\ ~SomeRuleMatches(BoundRules, prev.optimized) =>
              /\ result.optimized = prev.optimized
              /\ result.transformations = <<>>
        /\ SomeRuleMatches(BoundRules, prev.optimized) =>
              /\ Len(result.optimized) < Len(prev.optimized)
              /\ result.transformations # <<>>
        /\ prev.transformations = <<>> => ~SomeRuleMatches(BoundRules, prev.optimized)

\* a first call that rewrote the prompt, and a second call that changes nothing
C9_Witness ==
    /\ op = "fedback"
    /\ guide \in GuideRefs
    /\ prev.transformations # <<>>
    /\ result.optimized = prev.optimized
    /\ result.transformations = <<>>

-----------------------------------------------------------------------------
(* The facades when no guide is bound.                                     *)

\* the three generic phrases of BaseModel.optimize_prompt
GenericPatterns ==
    << <<"P", "l", "e", "a", "s", "e", "\\s+">>, <<"C", "o", "u", "l", "d", " ", "y", "o", "u", "\\s+">>, <<"I", " ", "w", "o", "u", "l", "d", " ", "l", "i", "k", "e", " ", "y", "o", "u", " ", "t", "o", "\\s+">> >>

\* the guide-less details result carries no guide, no trace and no tip
DetailsWithoutGuideFields ==
    /\ result.original = prompt
    /\ result.guide_name = None
    /\ result.guide_source = None
    /\ result.tip = None
    /\ result.transformations = <<>>

\* C11 as stated: when the bound model resolves to no guide,
\* get_optimization_details returns an identity transformation: optimized
\* equals the prompt for every prompt, guide_name, guide_source and tip are
\* None and transformations is empty.
C11_DetailsIdentityWithoutGuide ==
    (op = "details" /\ guide = None) =>
        /\ DetailsWithoutGuideFields
        /\ result.optimized = prompt

\* C11, amended: when the bound model resolves to no guide,
\* get_optimization_details returns None guide fields and tip and an empty
\* trace, and optimized is the prompt with the generic phrases 'Please\s+',
\* 'Could you\s+' and 'I would like you to\s+' removed in that order; it
\* equals the prompt exactly when none of the three phrases occurs in it.
C11_DetailsGenericWithoutGuide ==
    (op = "details" /\ guide = None) =>
        /\ DetailsWithoutGuideFields
        /\ result.optimized =
              ReSub(GenericPatterns[3], <<>>,
                 ReSub(GenericPatterns[2], <<>>,
                    ReSub(GenericPatterns[1], <<>>, prompt)))
        /\ (result.optimized = prompt) <=>
              (\A i \in 1..3 : ~ReSearch(GenericPatterns[i], prompt))

\* a guide-less details call that shortened a prompt holding a generic phrase
C11_Witness ==
    /\ op = "details" /\ guide = None
    /\ ReSearch(GenericPatterns[1], prompt)
    /\ Len(result.optimized) < Len(prompt)
    /\ result.transformations = <<>>

\* the three literal phrases of ScaleDown.mock_optimize
MockPhrases == << <<"P", "l", "e", "a", "s", "e", " ">>, <<"k", "i", "n", "d", "l", "y", " ">>, <<"C", "o", "u", "l", "d", " ", "y", "o", "u", " ">> >>

\* lit occurs in s
Contains(s, lit) == \E i \in 1..Len(s) : LitAt(s, i, lit)

\* the session's current model resolves to no guide
MockWithoutGuide ==
    /\ op = "mock"
    /\ ~(ModelSelected(current_model)
          /\ get_guide_for_model(current_model) # None)

\* C12 as stated: for any prompt whose current model resolves to no guide,
\* mock_optimize reports zero savings: optimized equals the prompt, both token
\* counts equal the prompt's word count, saved_tokens and saved_percentage
\* are 0 (for 'Hello': 1, 1, 0, 0).
C12_MockZeroSavingsWithoutGuide ==
    MockWithoutGuide =>
        /\ result.optimized = prompt
        /\ result.original_tokens = WordCount(prompt)
        /\ result.optimized_tokens = WordCount(prompt)
        /\ result.saved_tokens = 0
        /\ result.saved_percentage.num = 0

\* C12, amended: for any prompt whose current model resolves to no guide,
\* mock_optimize returns the prompt with every 'Please ', 'kindly ' and
\* 'Could you ' removed, in that order, counts the words of the prompt and of
\* that text and reports their difference; the savings are zero when none of
\* the three phrases occurs in the prompt (for 'Hello': 1, 1, 0, 0).
C12_MockPhraseSavingsWithoutGuide ==
    MockWithoutGuide =>
        /\ result.original = prompt
        /\ result.optimized =
              StrReplace(StrReplace(StrReplace(prompt,
                  MockPhrases[1], <<>>), MockPhrases[2], <<>>), MockPhrases[3], <<>>)
        /\ result.original_tokens = WordCount(prompt)
        /\ result.optimized_tokens = WordCount(result.optimized)
        /\ result.saved_tokens = result.original_tokens - result.optimized_tokens
        /\ result.saved_percentage =
              Percentage(result.saved_tokens, result.original_tokens)
        /\ (result.optimized = prompt) <=>
              (\A i \in 1..3 : ~Contains(prompt, MockPhrases[i]))
        /\ (\A i \in 1..3 : ~Contains(prompt, MockPhrases[i])) =>
              /\ result.saved_tokens = 0
              /\ result.saved_percentage.num = 0
        /\ prompt = <<"H", "e", "l", "l", "o">> =>
              /\ result.original_tokens = 1 /\ result.optimized_tokens = 1
              /\ result.saved_tokens = 0 /\ result.saved_percentage.num = 0
        /\ DOMAIN result = {"original", "optimized", "original_tokens",
              "optimized_tokens", "saved_tokens", "saved_percentage", "model"}

\* a guide-less mock call that saved words on a prompt holding a phrase
C12_Witness ==
    /\ MockWithoutGuide
    /\ current_model = <<"c", "l", "a", "u", "d", "e", "-", "3">>
    /\ Contains(prompt, MockPhrases[1])
    /\ result.saved_tokens > 0

-----------------------------------------------------------------------------
(* Construction and the alias table.                                       *)

\* C15: an empty (or null) model identifier given to the constructor of
\* GuideBasedOptimizer or BaseModel is refused at construction, so that no
\* constructed optimizer silently has no guide because its identifier is
\* empty.
C15_EmptyIdRefusedAtConstruction ==
    guide # "unbound" => model_name # <<>>

\* C18: in the MODEL_TO_GUIDE that a constructed optimizer was resolved
\* against, whenever one alias key is a proper prefix of another, the longer
\* key comes earlier in iteration order.
C18_SpecificAliasFirst ==
    guide # "unbound" =>
        \A i, j \in 1..Len(MODEL_TO_GUIDE) :
            (/\ MODEL_TO_GUIDE[i].key # MODEL_TO_GUIDE[j].key
             /\ IsPrefixOf(MODEL_TO_GUIDE[i].key, MODEL_TO_GUIDE[j].key))
                => j < i

-----------------------------------------------------------------------------
(* The tip draw, the queries and the shared catalog.                       *)

C16_CatalogReadOnly ==
    /\ catalog.PROMPTING_GUIDES = PROMPTING_GUIDES
    /\ catalog.MODEL_TO_GUIDE = MODEL_TO_GUIDE
    /\ \A ref \in GuideRefs : catalog.guides[ref] = GuideObject(ref)
    /\ DOMAIN catalog.guides = GuideRefs
    /\ guide # "unbound" => guide = get_guide_for_model(model_name)

\* two optimize calls on one optimizer, the first of which rewrote the prompt
C16_Witness ==
    /\ op \in {"same", "fedback"}
    /\ guide \in GuideRefs
    /\ prev.transformations # <<>>
    /\ catalog = InitialCatalog

\* the models of tests/test_guides.py, test_all_guides
TestModels == { <<"g", "p", "t", "-", "4">>, <<"c", "l", "a", "u", "d", "e", "-", "3", "-", "o", "p", "u", "s">>, <<"l", "l", "a", "m", "a", "-", "3", "-", "7", "0", "b">> }

\* the guide test_all_guides finds for each of them
TestGuide(name) ==
    CASE name = <<"g", "p", "t", "-", "4">>         -> "GPT_GUIDE"
      [] name = <<"c", "l", "a", "u", "d", "e", "-", "3", "-", "o", "p", "u", "s">> -> "CLAUDE_GUIDE"
      [] name = <<"l", "l", "a", "m", "a", "-", "3", "-", "7", "0", "b">>   -> "LLAMA_GUIDE"

\* C19: has_guide() is true exactly when get_guide_for_model(model_name)
\* returns a guide; get_guide_info() is None when there is no guide and
\* otherwise the guide's name, source and url with tip_count the number of
\* its tips; for 'gpt-4', 'claude-3-opus' and 'llama-3-70b' the GPT, Claude
\* and Llama guides are found and optimize returns a result with
\* 'optimized', 'transformations' and 'tip'.
C19_GuideQueries ==
    LET g == get_guide_for_model(model_name)
    IN  /\ op = "has_guide" => result = Returned(g # None)
        /\ op = "get_guide_info" =>
              IF g = None
              THEN result = Returned(None)
              ELSE result = Returned([name      |-> GuideObject(g).name,
                                      source    |-> GuideObject(g).source,
                                      url       |-> GuideObject(g).url,
                                      tip_count |-> Len(GuideObject(g).tips)])
        /\ (model_name \in TestModels /\ guide # "unbound") =>
              /\ guide = TestGuide(model_name)
              /\ op = "has_guide" => result.value
              /\ op = "optimize" =>
                    {"optimized", "transformations", "tip"} \subseteq DOMAIN result

\* get_guide_info() of the optimizer of 'llama-3-70b'
C19_Witness ==
    /\ op = "get_guide_info"
    /\ model_name = <<"l", "l", "a", "m", "a", "-", "3", "-", "7", "0", "b">>
    /\ result.value.name = LLAMA_GUIDE.name
    /\ result.value.tip_count = 5

-----------------------------------------------------------------------------
(* The ScaleDown session.                                                  *)

\* the operations that need a selected model, with or without prompt argument
ModelOperations ==
    {"compress_via_api", "compress_via_api()",
     "ScaleDown.optimize", "ScaleDown.optimize()", "get_model_guide_info"}

\* C14: called while no model is selected (current_model None or empty),
\* compress_via_api, optimize and get_model_guide_info each raise the
\* ValueError 'No model selected' at once: nothing was done before it (no
\* prompt generated, no request sent, no rewrite, no retry) and the session's
\* template, style, values and model are what they were.
C14_NoModelFailsFast ==
    [][(/\ op = "none"
        /\ op' \in ModelOperations
        /\ ~ModelSelected(current_model))
          => /\ result' = Raised(NoModelError)
             /\ effects' = <<>>
             /\ session' = session
             /\ current_model' = current_model]_vars

\* compress_via_api() refused in a session that selected a template, set a
\* value and selected the empty identifier as its model
C14_Witness ==
    /\ op = "compress_via_api()"
    /\ current_model = <<>>
    /\ session.current_template # None
    /\ session.template_values # {}
    /\ result = Raised(NoModelError)

\* the service's answer makes compress_prompt return
ApiSucceeds(reply) ==
    reply.raised = "" /\ reply.status_code = 200 /\ reply.body # "invalid"

\* C20: with a model selected and an explicit prompt, compress_via_api
\* always returns a result: it first sends the prompt to the API; when the
\* API answers, that response is returned as it is and nothing is optimized
\* locally; when the API call raises (a non-200 status included),
\* mock_optimize(prompt) is run exactly once and its result returned, the
\* request is not sent again and no API failure reaches the caller.
C20_ApiThenLocalFallback ==
    (op = "compress_via_api" /\ ModelSelected(current_model)) =>
        /\ "raised" \notin DOMAIN result
        /\ effects # <<>>
        /\ effects[1].event = "api_request"
        /\ \A n \in 2..Len(effects) : effects[n].event # "api_request"
        /\ LET reply == effects[1].detail
           IN  IF ApiSucceeds(reply)
               THEN /\ Len(effects) = 1
                    /\ result = [response_json |-> reply.body]
               ELSE /\ Len(effects) = 2
                    /\ effects[2].event = "mock_optimize"
                    /\ \E tip \in MockTips(current_model) :
                          result = mock_optimize(current_model, prompt, tip)

\* a request answered with status 500, after which the local rewrite saved
\* words
C20_Witness ==
    /\ op = "compress_via_api"
    /\ ModelSelected(current_model)
    /\ effects[1].detail.status_code = 500
    /\ Len(effects) = 2
    /\ result.model = "mock-model"
    /\ result.saved_tokens > 0

-----------------------------------------------------------------------------
(* Concurrent callers.                                                     *)

\* C17: under every interleaving of two concurrent invocations of
\* get_guide_for_model and optimize, each invocation that has returned gave
\* the guide, the optimized text and the transformations trace it gives when
\* it runs alone.
C17_InterleavingInvisible ==
    \A t \in DOMAIN threads :
        threads[t].pc = "done" =>
            IF threads[t].call = "get_guide_for_model"
            THEN threads[t].result.guide = get_guide_for_model(threads[t].name)
            ELSE LET alone == optimize(get_guide_for_model(threads[t].name),
                                       threads[t].text, threads[t].result.tip)
                 IN  /\ threads[t].result.guide_name = alone.guide_name
                     /\ threads[t].result.optimized = alone.optimized
                     /\ threads[t].result.transformations = alone.transformations

\* an optimize call that returned with a trace while another call on the
\* same guide was in the middle of its loop
C17_Witness ==
    /\ threads # <<>>
    /\ threads[1].pc = "done"
    /\ threads[1].call = "optimize"
    /\ threads[1].result.transformations # <<>>
    /\ threads[2].pc = "loop"
    /\ threads[2].k > 1
    /\ threads[2].applied_transformations # <<>>
    /\ threads[2].guide = threads[1].guide

-----------------------------------------------------------------------------
(* The session once a model is selected.                                   *)

\* C21: after select_model(id) with a non-empty id, ScaleDown.optimize(prompt)
\* with an explicit prompt does not fail and returns a dictionary with
\* original, optimized, original_tokens, optimized_tokens, saved_tokens and
\* saved_percentage, and with guide_name, guide_source, transformations and
\* tip when a guide resolves for id.
C21_OptimizeReturnsWithModel ==
    (op = "ScaleDown.optimize" /\ ModelSelected(current_model)) =>
        /\ "raised" \notin DOMAIN result
        /\ {"original", "optimized", "original_tokens", "optimized_tokens",
            "saved_tokens", "saved_percentage"} \subseteq DOMAIN result
        /\ get_guide_for_model(current_model) # None =>
              {"guide_name", "guide_source", "transformations", "tip"}
                  \subseteq DOMAIN result

\* C22: after select_model(id), get_model_guide_info() returns the name,
\* source, url and tip_count of the guide get_guide_for_model(id) resolves,
\* and None only if there is no guide for the selected model.
C22_SessionGuideInfo ==
    (op = "get_model_guide_info" /\ ModelSelected(current_model)) =>
        LET g == get_guide_for_model(current_model)
        IN  /\ "raised" \notin DOMAIN result
            /\ g = None => result = Returned(None)
            /\ g # None =>
                  /\ result # Returned(None)
                  /\ result = Returned(get_guide_info(g))

-----------------------------------------------------------------------------
(* Shape of the trace.                                                     *)

\* C23: in every result of optimize the snapshots of the trace form an
\* unbroken chain: when transformations is not empty, the first 'before' is
\* original, each 'after' is the next entry's 'before' and the last 'after'
\* is optimized; when it is empty, optimized is original.
C23_TraceIsChain ==
    (op \in {"optimize", "same", "fedback"} /\ "raised" \notin DOMAIN result) =>
        LET trace == result.transformations
        IN  IF trace = <<>>
            THEN result.optimized = result.original
            ELSE /\ trace[1].before = result.original
                 /\ \A n \in 1..(Len(trace) - 1) : trace[n].after = trace[n + 1].before
                 /\ trace[Len(trace)].after = result.optimized

\* a result of the GPT guide whose trace has two linked entries
C23_Witness ==
    /\ op = "optimize"
    /\ guide = "GPT_GUIDE"
    /\ Len(result.transformations) >= 2
    /\ result.transformations[1].before = prompt
    /\ result.transformations[1].after = result.transformations[2].before
    /\ result.transformations[2].after = result.optimized

\* C27: with the Llama, Claude and GPT guides, each recorded transformation
\* strictly shortens the text, so optimized is never longer than original,
\* and transformations is empty if and only if optimized equals original.
C27_EveryEntryShortens ==
    (op \in {"optimize", "same", "fedback"} /\ guide \in GuideRefs) =>
        /\ \A n \in 1..Len(result.transformations) :
              Len(result.transformations[n].after) <
                  Len(result.transformations[n].before)
        /\ Len(result.optimized) <= Len(result.original)
        /\ (result.transformations = <<>>) <=> (result.optimized = result.original)

\* a rule that matched and shortened the text, followed by another that did
C27_Witness ==
    /\ op = "optimize"
    /\ guide \in GuideRefs
    /\ Len(result.transformations) = 2
    /\ Len(result.optimized) < Len(result.original)

-----------------------------------------------------------------------------
(* The alias table and the prefix tier.                                    *)

\* C24: every value of MODEL_TO_GUIDE is a key of PROMPTING_GUIDES, so for
\* every identifier get_guide_for_model gives a catalog guide or None and
\* never the KeyError of a missing key in the alias or prefix tier.
C24_AliasValuesAreCatalogKeys ==
    /\ guide # "unbound" =>
          /\ \A n \in 1..Len(MODEL_TO_GUIDE) :
                DictHas(PROMPTING_GUIDES, MODEL_TO_GUIDE[n].value)
          /\ guide # KeyError
          /\ guide \in GuideRefs \cup {None}
    /\ op = "get_guide_for_model" =>
          /\ result.guide # KeyError
          /\ result.guide \in GuideRefs \cup {None}

\* an identifier resolved through an exact alias
C24_Witness ==
    /\ guide \in GuideRefs
    /\ DirectItems(Lower(model_name)) = {}
    /\ AliasItems(Lower(model_name)) # {}
    /\ \A n \in AliasItems(Lower(model_name)) :
          DictHas(PROMPTING_GUIDES, MODEL_TO_GUIDE[n].value)

\* C25: with the shipped alias table the prefix tier does not depend on the
\* order of the aliases: for every identifier, all alias keys that are
\* prefixes of it lead to the same guide key, so the first match in insertion
\* order gives the guide that the longest prefix, or the first match of any
\* other order, gives.
C25_PrefixTierOrderFree ==
    guide # "unbound" =>
        LET k == Lower(model_name)
        IN  /\ \A i, j \in PrefixItems(k) :
                  MODEL_TO_GUIDE[i].value = MODEL_TO_GUIDE[j].value
            /\ (DirectItems(k) = {} /\ AliasItems(k) = {} /\ PrefixItems(k) # {}) =>
                  \A n \in PrefixItems(k) : guide = AliasGuide(n)

\* an identifier of the prefix tier whose first matching alias is not its
\* longest matching alias
C25_Witness ==
    /\ guide \in GuideRefs
    /\ LET k == Lower(model_name)
       IN  /\ DirectItems(k) = {} /\ AliasItems(k) = {}
           /\ \E first, longest \in PrefixItems(k) :
                 /\ \A m \in PrefixItems(k) : first <= m
                 /\ \A m \in PrefixItems(k) :
                       Len(MODEL_TO_GUIDE[m].key) <= Len(MODEL_TO_GUIDE[longest].key)
                 /\ first # longest

\* C26: the prefix tier consults alias keys only: an identifier that starts
\* with a catalog key but is no catalog key, no alias and has no alias as a
\* prefix resolves to None; so do 'claude-3', 'llama-4', 'gpt-5' and
\* 'openai-x', while 'gpt-4' resolves to the GPT guide.
C26_PrefixTierIgnoresCatalogKeys ==
    guide # "unbound" =>
        LET k == Lower(model_name)
        IN  /\ (/\ \E n \in 1..Len(PROMPTING_GUIDES) :
                      StartsWith(k, PROMPTING_GUIDES[n].key)
                /\ DirectItems(k) = {}
                /\ AliasItems(k) = {}
                /\ PrefixItems(k) = {}) => guide = None
            /\ k \in { <<"c", "l", "a", "u", "d", "e", "-", "3">>, <<"l", "l", "a", "m", "a", "-", "4">>, <<"g", "p", "t", "-", "5">>, <<"o", "p", "e", "n", "a", "i", "-", "x">> } =>
                  guide = None
            /\ k = <<"g", "p", "t", "-", "4">> => guide = "GPT_GUIDE"

\* 'openai-x': it starts with the catalog key 'openai' and has no guide
C26_Witness ==
    /\ guide = None
    /\ model_name = <<"o", "p", "e", "n", "a", "i", "-", "x">>
    /\ StartsWith(model_name, <<"o", "p", "e", "n", "a", "i">>)

=============================================================================
